---- MODULE Spec2Model ----
(***************************************************************************)
(* Model of PlaywrightRushScraper (src/src/scraper/playwright-rush-scraper  *)
(* .js): the schedule cache, the shared browser handle, the asynchronous   *)
(* scrapeTrainSchedule requests and cleanup().                             *)
(*                                                                         *)
(* JavaScript runs the scraper on one event loop: a request runs           *)
(* atomically from one awaited browser operation to the next.  Each action *)
(* below is the resolution (or rejection) of the operation a request is    *)
(* suspended on, together with the synchronous code that follows it up to  *)
(* the next awaited operation.                                             *)
(***************************************************************************)
EXTENDS Integers, Sequences, FiniteSets, Bags, TLC

VARIABLES
    useBrowserScraper,  \* this.useBrowserScraper (constructor option)
    now,                \* the clock, in ticks of TickMs milliseconds
    cache,              \* this.cache: key -> [data, timestamp, live]
    browser,            \* this.browser: 0 (null) or a browser id
    launched,           \* number of browsers launched so far (ids 1..launched)
    openBrowsers,       \* browsers launched and not closed
    contexts,           \* number of browsing contexts created so far
    pages,              \* number of pages created so far
    inflight,           \* the bag of suspended scrapeTrainSchedule calls:
                        \* [pc, call, browser, context, page, response]
    returned,           \* the return of scrapeTrainSchedule being handed to
                        \* its caller: [call, data, how, live], or NULL
    cleanupPc,          \* cleanup(): "idle", "closing", "done", or
                        \* "doneCloseFailed" (done, close() had rejected)
    closing,            \* the browser cleanup() is closing
    calls,              \* number of scrapeTrainSchedule calls started
    userSessions        \* ConversationHandler.userSessions: userId -> session

vars == <<useBrowserScraper, now, cache, browser, launched, openBrowsers,
          contexts, pages, inflight, returned, cleanupPc, closing, calls,
          userSessions>>

-----------------------------------------------------------------------------
(* Bounds of the model *)

MaxCalls == 2
MaxFound == 2
MaxMatches == 3
MaxText == 4
MaxName == 3
TickMs == 150000

(* two callers, each with at most one call outstanding *)
Callers == {"a", "b"}

(* Program constants *)

cacheDuration == 300
NumTrains == 5
DelayThreshold == 20
OnTimeLimit == 15
MinutesPerStation == 3
MinTravel == 5
MaxTrains == 10
DigestHexLen == 64

NULL == [null |-> TRUE]

DayMs == 24 * 60 * 60000

(* wall-clock millisecond of the day at clock 0: 23:50 *)
dayStart == 23 * 3600000 + 50 * 60000

-----------------------------------------------------------------------------
(* Strings are sequences of one-character strings. *)

LowerChar(c) ==
    CASE c = "A" -> "a"
      [] c = "B" -> "b"
      [] c = "C" -> "c"
      [] OTHER -> c

toLowerCase(s) == [i \in 1..Len(s) |-> LowerChar(s[i])]

CharCode(c) ==
    CASE c = "A" -> 65
      [] c = "B" -> 66
      [] c = "C" -> 67
      [] c = "a" -> 97
      [] c = "b" -> 98
      [] c = "c" -> 99
      [] c = "_" -> 95
      [] c = " " -> 32
      [] c = "G" -> 71
      [] c = "Z" -> 90
      [] c = "d" -> 100
      [] c = "y" -> 121
      [] OTHER -> 63

(* a string without its leading and trailing blanks *)
RECURSIVE Trim(_)
Trim(s) ==
    IF s = <<>> THEN s
    ELSE IF Head(s) = " " THEN Trim(Tail(s))
    ELSE IF s[Len(s)] = " " THEN Trim(SubSeq(s, 1, Len(s) - 1))
    ELSE s

(* a key built from the trimmed names *)
_getCacheKeyTrimmed(origin, destination) ==
    toLowerCase(Trim(origin)) \o <<"_">> \o toLowerCase(Trim(destination))

_getCacheKey(origin, destination) ==
    toLowerCase(origin) \o <<"_">> \o toLowerCase(destination)

NowMs == now * TickMs

(* the comparison of _isCacheValid with <= for < *)
_isCacheValidInclusive(timestamp) == NowMs - timestamp <= cacheDuration * 1000

_isCacheValid(timestamp) == NowMs - timestamp < cacheDuration * 1000

-----------------------------------------------------------------------------
(* _hashString: hash = ((hash << 5) - hash) + char, then hash & hash, i.e.  *)
(* 31 * hash + char in 32-bit wrap-around arithmetic.  The 32-bit word is   *)
(* kept as <<high half, low half>> of 16 bits each.                         *)

Half == 65536

HashStep(h, code) ==
    LET lo == h[2] * 31 + code
        hi == h[1] * 31 + (lo \div Half)
    IN  <<hi % Half, lo % Half>>

RECURSIVE HashLoop(_, _, _)
HashLoop(str, i, h) ==
    IF i > Len(str) THEN h
    ELSE HashLoop(str, i + 1, HashStep(h, CharCode(str[i])))

(* Math.abs of the signed 32-bit word, again as <<high, low>>; the          *)
(* magnitude of -2^31 is 2^31 = <<32768, 0>>.                              *)
AbsWord(h) ==
    IF h[1] < Half \div 2 THEN h
    ELSE IF h[2] = 0 THEN <<Half - h[1], 0>>
    ELSE <<Half - 1 - h[1], Half - h[2]>>

_hashString(str) == AbsWord(HashLoop(str, 1, <<0, 0>>))

(* word % 10, with 65536 = 6 (mod 10) *)
WordMod10(w) == ((w[1] % 10) * 6 + w[2]) % 10

(* the remainder taken of the signed hash, with no Math.abs anywhere: in   *)
(* JavaScript it has the sign of the hash                                  *)
StationCountSigned(origin) ==
    LET hash == HashLoop(origin, 1, <<0, 0>>)
    IN  IF hash[1] < Half \div 2 THEN WordMod10(hash) + 2
        ELSE 2 - WordMod10(AbsWord(hash))

StationCount(origin) == WordMod10(_hashString(origin)) + 2

Max(a, b) == IF a >= b THEN a ELSE b

_estimateTravelTime(origin, destination) ==
    Max(MinTravel, StationCount(origin) * MinutesPerStation)

-----------------------------------------------------------------------------
(* Wall clock and time strings.  A time string is [h, m, sep]: the digits   *)
(* before and after the separator and the separator itself.                 *)

WallMs == (dayStart + NowMs) % DayMs

TimeOfDay(ms) ==
    LET minute == (ms \div 60000) % (24 * 60)
    IN  [h |-> minute \div 60, m |-> minute % 60, sep |-> ":", digits |-> 2]

(* the gaps of the RushScraper class that PlaywrightRushScraper replaced *)
legacyIntervals == <<5, 7, 8, 10, 12>>

intervals == <<3, 5, 7, 8, 10>>

RECURSIVE SumFirst(_, _)
SumFirst(s, n) == IF n = 0 THEN 0 ELSE s[n] + SumFirst(s, n - 1)

SimStatus(minutesAhead) ==
    IF minutesAhead <= OnTimeLimit THEN "On Time"
    ELSE IF minutesAhead > DelayThreshold THEN "Delayed" ELSE "On Time"

SimTrain(i) ==
    LET minutesAhead == SumFirst(intervals, i)
    IN  [time |-> TimeOfDay(dayStart + NowMs + minutesAhead * 60000),
         minutesAway |-> minutesAhead,
         status |-> SimStatus(minutesAhead)]

(* a simulation whose travel time grows with the clock and whose number   *)
(* of trains depends on the cache                                          *)
_simulateTrainDataStateful(origin, destination, line) ==
    [line |-> line,
     origin |-> origin,
     destination |-> destination,
     nextTrains |-> [i \in 1..(IF cache = <<>> THEN NumTrains ELSE NumTrains - 1)
                        |-> SimTrain(i)],
     estimatedTravelTime |-> MinutesPerStation * StationCount(origin) + now,
     lastUpdated |-> NowMs,
     status |-> "operational",
     simulated |-> TRUE]

(* _simulateTrainData with the two station names taken in the other order *)
_simulateTrainDataReversed(origin, destination, line) ==
    [line |-> line,
     origin |-> destination,
     destination |-> origin,
     nextTrains |-> [i \in 1..NumTrains |-> SimTrain(i)],
     estimatedTravelTime |-> MinutesPerStation * StationCount(origin),
     lastUpdated |-> NowMs,
     status |-> "operational",
     simulated |-> TRUE]

_simulateTrainData(origin, destination, line) ==
    [line |-> line,
     origin |-> origin,
     destination |-> destination,
     nextTrains |-> [i \in 1..NumTrains |-> SimTrain(i)],
     estimatedTravelTime |-> MinutesPerStation * StationCount(origin),
     lastUpdated |-> NowMs,
     status |-> "operational",
     simulated |-> TRUE]

-----------------------------------------------------------------------------
(* _extractTrainDataFromPage.  A page is the sequence of time-pattern       *)
(* matches in the order the selector / element / pattern loops meet them:   *)
(* [time, min, status], min being the "<n> min" figure of the element's     *)
(* text (0 when there is none).                                             *)

NaN == -1

(* a validator that lets 24 hours and 60 minutes through *)
ValidTimeInclusive(t) == t.h >= 0 /\ t.h <= 24 /\ t.m >= 0 /\ t.m <= 60

ValidTime(t) == t.h >= 0 /\ t.h <= 23 /\ t.m >= 0 /\ t.m <= 59

RECURSIVE MineTimes(_, _, _, _)
MineTimes(matches, i, processedTimes, trainTimes) ==
    IF i > Len(matches) THEN trainTimes
    ELSE LET mt == matches[i]
         IN  IF mt.time \notin processedTimes /\ ValidTime(mt.time)
             THEN MineTimes(matches, i + 1, processedTimes \cup {mt.time},
                            Append(trainTimes,
                                   [time |-> mt.time,
                                    minutesAway |-> mt.min,
                                    status |-> mt.status]))
             ELSE MineTimes(matches, i + 1, processedTimes, trainTimes)

FirstIndex(s, t) == CHOOSE i \in 1..Len(s) :
                        /\ s[i].time = t
                        /\ \A j \in 1..(i - 1) : s[j].time # t

UniqueTimes(trainTimes) ==
    LET keep == SelectSeq([i \in 1..Len(trainTimes) |-> i],
                          LAMBDA i : i = FirstIndex(trainTimes, trainTimes[i].time))
        uniq == [k \in 1..Len(keep) |-> trainTimes[keep[k]]]
    IN  SubSeq(uniq, 1, IF Len(uniq) < MaxTrains THEN Len(uniq) ELSE MaxTrains)

_calculateMinutesFromTime(t) ==
    IF t.sep # ":" THEN NaN
    ELSE LET target == t.h * 3600000 + t.m * 60000
             rolled == IF target < WallMs THEN target + DayMs ELSE target
         IN  Max(0, (rolled - WallMs) \div 60000)

PostProcess(train) ==
    IF train.minutesAway = 0
    THEN [train EXCEPT !.minutesAway = _calculateMinutesFromTime(train.time)]
    ELSE train

RECURSIVE ValidMatches(_, _)
ValidMatches(matches, i) ==
    IF i > Len(matches) THEN <<>>
    ELSE IF ValidTime(matches[i].time)
         THEN <<[time |-> matches[i].time, minutesAway |-> matches[i].min,
                 status |-> matches[i].status]>> \o ValidMatches(matches, i + 1)
         ELSE ValidMatches(matches, i + 1)

(* _extractTrainDataFromPage keeping every valid match: no processedTimes, *)
(* no uniqueTimes filter                                                   *)
_extractTrainDataFromPageAll(matches, origin, destination, line) ==
    LET trainTimes == ValidMatches(matches, 1)
    IN  IF Len(trainTimes) > 0
        THEN [line |-> line,
              origin |-> origin,
              destination |-> destination,
              nextTrains |-> [i \in 1..Len(trainTimes) |-> PostProcess(trainTimes[i])],
              extractedAt |-> NowMs,
              simulated |-> FALSE,
              source |-> "playwright-extraction",
              estimatedTravelTime |-> _estimateTravelTime(origin, destination),
              lastUpdated |-> NowMs,
              status |-> "operational"]
        ELSE NULL

_extractTrainDataFromPage(matches, origin, destination, line) ==
    LET trainTimes == MineTimes(matches, 1, {}, <<>>)
        uniqueTimes == UniqueTimes(trainTimes)
    IN  IF Len(trainTimes) > 0
        THEN [line |-> line,
              origin |-> origin,
              destination |-> destination,
              nextTrains |-> [i \in 1..Len(uniqueTimes) |-> PostProcess(uniqueTimes[i])],
              extractedAt |-> NowMs,
              simulated |-> FALSE,
              source |-> "playwright-extraction",
              estimatedTravelTime |-> _estimateTravelTime(origin, destination),
              lastUpdated |-> NowMs,
              status |-> "operational"]
        ELSE NULL

-----------------------------------------------------------------------------
(* Inputs *)

Requests ==
    { <<<<"A", "b">>, <<"c">>, "MRT-3">>,         \* a route
      <<<<"a", "b">>, <<"c">>, "LRT-1">> }        \* the same in another case

(* more spellings, for the scraper in its default configuration *)
DefaultRequests ==
    Requests \cup
    { <<<<"A", "b", " ">>, <<"c">>, "MRT-3">>,    \* with a trailing blank
      <<<<" ", "A", "b">>, <<"c">>, "MRT-3">>,    \* with a leading blank
      <<<<"A", "b">>, <<"C">>, "MRT-3">>,         \* destination in another case
      <<<<"c">>, <<"A", "b">>, "LRT-1">> }        \* the way back

(* a time string as written: "8:05" is T(8, 5, ":"), "08:05" is            *)
(* T0(8, 5, ":"), "8.05" is T(8, 5, ".")                                   *)
T(h, m, sep) ==
    [h |-> h, m |-> m, sep |-> sep, digits |-> IF h < 10 THEN 1 ELSE 2]
T0(h, m, sep) == [h |-> h, m |-> m, sep |-> sep, digits |-> 2]
M(t, min, status) == [time |-> t, min |-> min, status |-> status]

PageContents ==
    { << M(T(24, 0, ":"), 0, "On Time"), M(T(12, 60, ":"), 0, "On Time") >>,
      << M(T(23, 58, ":"), 0, "On Time"), M(T(23, 58, ":"), 0, "On Time"),
         M(T(8, 5, ":"), 0, "On Time"), M(T(7, 59, ":"), 4, "Delayed") >> }

-----------------------------------------------------------------------------
(* State *)

Init ==
    /\ useBrowserScraper \in BOOLEAN
    /\ now = 0
    /\ cache = <<>>
    /\ browser = 0
    /\ launched = 0
    /\ openBrowsers = {}
    /\ contexts = 0
    /\ pages = 0
    /\ inflight = EmptyBag
    /\ returned = NULL
    /\ cleanupPc = "idle"
    /\ closing = 0
    /\ calls = 0
    /\ userSessions = <<>>

(* What a caller of scrapeTrainSchedule gets: the record and the call it    *)
(* answers.  how ("cache", "live" or "simulated") is the return statement   *)
(* taken, and live tells whether a live extraction succeeded in the request *)
(* that produced the record; both are bookkeeping for the properties.       *)
Returned(call, data, how, live) ==
    [call |-> call, data |-> data, how |-> how, live |-> live]

(* this.cache.set that keeps an entry already there *)
CacheSetIfAbsent(key, data, live) ==
    [k \in DOMAIN cache \cup {key} |->
        IF k \in DOMAIN cache THEN cache[k]
        ELSE [data |-> data, timestamp |-> NowMs, live |-> live]]

(* this.cache.set(cacheKey, { data, timestamp: new Date() }); live is the   *)
(* same bookkeeping, kept with the entry                                    *)
CacheSet(key, data, live) ==
    [k \in DOMAIN cache \cup {key} |->
        IF k = key THEN [data |-> data, timestamp |-> NowMs, live |-> live]
        ELSE cache[k]]

(* getCacheInfo().entries *)
getCacheInfo ==
    [totalEntries |-> Cardinality(DOMAIN cache),
     cacheDuration |-> cacheDuration,
     entries |-> { [key |-> k,
                    timestamp |-> cache[k].timestamp,
                    valid |-> _isCacheValid(cache[k].timestamp),
                    simulated |-> cache[k].data.simulated] : k \in DOMAIN cache }]

BrowserVars == <<browser, launched, openBrowsers>>
CleanupVars == <<cleanupPc, closing>>
(* what no step of the scraper changes: its configuration, and the         *)
(* sessions of the conversation handler that calls it                      *)
ConfigVars == <<useBrowserScraper, userSessions>>

(* A suspended call: the operation it awaits (pc), its arguments, the      *)
(* locals browser, context and page of _attemptDataExtraction (0 for       *)
(* null), and the value _attemptDataExtraction is about to return.  log is *)
(* bookkeeping for the properties: the operations on the page and the      *)
(* context that the call has performed, where its steps are told apart.    *)
Request(pc, call, b, context, page, response) ==
    [pc |-> pc, call |-> call, browser |-> b, context |-> context,
     page |-> page, response |-> response, log |-> <<>>]

InFlight == BagToSet(inflight)

Suspend(r) == inflight (+) SetToBag({r})
Resume(r, next) == (inflight (-) SetToBag({r})) (+) SetToBag({next})
Finish(r) == inflight (-) SetToBag({r})

-----------------------------------------------------------------------------
(* scrapeTrainSchedule(origin, destination, line), up to the first awaited  *)
(* operation: the cache lookup, and on a miss the entry into                *)
(* _attemptDataExtraction and _initBrowser.                                 *)

(* _attemptDataExtraction without its first check *)
ToggleIgnored == FALSE

(* _attemptDataExtraction: if (!this.useBrowserScraper) return null *)
BrowserScrapingDisabled == ~useBrowserScraper

(* scrapeTrainSchedule with an eager lookup: an expired entry is deleted   *)
(* when it is found                                                        *)
scrapeTrainScheduleEvicting(origin, destination, line) ==
    LET cacheKey == _getCacheKey(origin, destination)
        call == [origin |-> origin, destination |-> destination, line |-> line]
    IN
    /\ returned = NULL
    /\ calls < MaxCalls
    /\ BagCardinality(inflight) < Cardinality(Callers)
    /\ calls' = calls + 1
    /\ IF cacheKey \in DOMAIN cache /\ _isCacheValid(cache[cacheKey].timestamp)
       THEN /\ returned' = Returned(call, cache[cacheKey].data, "cache",
                                      cache[cacheKey].live)
            /\ UNCHANGED <<inflight, cache>>
       ELSE /\ UNCHANGED returned
            /\ cache' = [k \in DOMAIN cache \ {cacheKey} |-> cache[k]]
            /\ IF BrowserScrapingDisabled
               THEN inflight' = Suspend(Request("respond", call, 0, 0, 0, NULL))
               ELSE IF browser # 0
               THEN inflight' = Suspend(Request("newContext", call, browser, 0, 0, NULL))
               ELSE inflight' = Suspend(Request("launch", call, 0, 0, 0, NULL))
    /\ UNCHANGED <<ConfigVars, now, BrowserVars, contexts, pages,
                   CleanupVars>>

(* scrapeTrainSchedule with a sliding expiry: a hit stamps the entry anew *)
scrapeTrainScheduleTouching(origin, destination, line) ==
    LET cacheKey == _getCacheKey(origin, destination)
        call == [origin |-> origin, destination |-> destination, line |-> line]
    IN
    /\ returned = NULL
    /\ calls < MaxCalls
    /\ BagCardinality(inflight) < Cardinality(Callers)
    /\ calls' = calls + 1
    /\ IF cacheKey \in DOMAIN cache /\ _isCacheValid(cache[cacheKey].timestamp)
       THEN /\ returned' = Returned(call, cache[cacheKey].data, "cache",
                                      cache[cacheKey].live)
            /\ cache' = [cache EXCEPT ![cacheKey].timestamp = NowMs]
            /\ UNCHANGED inflight
       ELSE /\ UNCHANGED <<returned, cache>>
            /\ IF BrowserScrapingDisabled
               THEN inflight' = Suspend(Request("respond", call, 0, 0, 0, NULL))
               ELSE IF browser # 0
               THEN inflight' = Suspend(Request("newContext", call, browser, 0, 0, NULL))
               ELSE inflight' = Suspend(Request("launch", call, 0, 0, 0, NULL))
    /\ UNCHANGED <<ConfigVars, now, BrowserVars, contexts, pages,
                   CleanupVars>>

scrapeTrainSchedule(origin, destination, line) ==
    LET cacheKey == _getCacheKey(origin, destination)
        call == [origin |-> origin, destination |-> destination, line |-> line]
    IN
    /\ returned = NULL
    /\ calls < MaxCalls
    /\ BagCardinality(inflight) < Cardinality(Callers)
    /\ calls' = calls + 1
    /\ IF cacheKey \in DOMAIN cache /\ _isCacheValid(cache[cacheKey].timestamp)
       THEN /\ returned' = Returned(call, cache[cacheKey].data, "cache",
                                      cache[cacheKey].live)
            /\ UNCHANGED inflight
       ELSE /\ UNCHANGED returned
            /\ IF BrowserScrapingDisabled
               THEN inflight' = Suspend(Request("respond", call, 0, 0, 0, NULL))
               ELSE IF browser # 0
               THEN inflight' = Suspend(Request("newContext", call, browser, 0, 0, NULL))
               ELSE inflight' = Suspend(Request("launch", call, 0, 0, 0, NULL))
    /\ UNCHANGED <<ConfigVars, now, cache, BrowserVars, contexts, pages,
                   CleanupVars>>

(* _initBrowser: browserEngine.launch() resolved; this.browser is set and   *)
(* returned, and browser.newContext() is awaited                            *)
LaunchOk(r) ==
    /\ returned = NULL
    /\ r.pc = "launch"
    /\ launched' = launched + 1
    /\ browser' = launched + 1
    /\ openBrowsers' = openBrowsers \cup {launched + 1}
    /\ inflight' = Resume(r, [r EXCEPT !.pc = "newContext",
                                       !.browser = launched + 1])
    /\ UNCHANGED <<ConfigVars, now, cache, contexts, pages, returned,
                   CleanupVars, calls>>

(* launch() rejected and nothing above _initBrowser catches the rethrown    *)
(* error: scrapeTrainSchedule rejects                                       *)
LaunchFailUncaught(r) ==
    /\ returned = NULL
    /\ r.pc = "launch"
    /\ browser' = 0
    /\ returned' = Returned(r.call, NULL, "rejected", FALSE)
    /\ inflight' = Finish(r)
    /\ UNCHANGED <<ConfigVars, now, cache, launched, openBrowsers, contexts,
                   pages, CleanupVars, calls>>

(* _initBrowser whose catch rethrows without clearing this.browser *)
LaunchFailKeepsReference(r) ==
    /\ returned = NULL
    /\ r.pc = "launch"
    /\ inflight' = Resume(r, [r EXCEPT !.pc = "respond"])
    /\ UNCHANGED <<ConfigVars, now, cache, BrowserVars, contexts,
                   pages, returned, CleanupVars, calls>>

(* _initBrowser: launch() rejected; the catch clears this.browser and       *)
(* rethrows, and the catch of _attemptDataExtraction returns null           *)
LaunchFail(r) ==
    /\ returned = NULL
    /\ r.pc = "launch"
    /\ browser' = 0
    /\ inflight' = Resume(r, [r EXCEPT !.pc = "respond"])
    /\ UNCHANGED <<ConfigVars, now, cache, launched, openBrowsers, contexts,
                   pages, returned, CleanupVars, calls>>

(* A browser operation can only succeed on a browser that is still open. *)
Alive(r) == r.browser \in openBrowsers

ReqFrame == <<ConfigVars, now, cache, BrowserVars, returned, CleanupVars, calls>>

(* the one default context of the browser, where browser.newPage() opens   *)
(* its pages                                                               *)
DefaultContext == browser

(* browser.newContext() and context.newPage() return new objects *)
NewContextId == contexts + 1
NewPageId == pages + 1

(* browser.newContext() and context.newPage() resolved; the work on the    *)
(* page is next                                                            *)
NewContextOk(r) ==
    /\ returned = NULL
    /\ r.pc = "newContext"
    /\ Alive(r)
    /\ contexts' = contexts + 1
    /\ pages' = pages + 1
    /\ inflight' = Resume(r, [r EXCEPT !.pc = "page",
                                       !.context = NewContextId,
                                       !.page = NewPageId])
    /\ UNCHANGED ReqFrame

(* browser.newContext() rejected: context and page are still null; the     *)
(* catch returns null                                                      *)
NewContextFail(r) ==
    /\ returned = NULL
    /\ r.pc = "newContext"
    /\ inflight' = Resume(r, [r EXCEPT !.pc = "respond"])
    /\ UNCHANGED <<ReqFrame, contexts, pages>>

(* browser.newContext() resolved and context.newPage() rejected: the       *)
(* catch returns null and the finally has a context to close               *)
NewPageFail(r) ==
    /\ returned = NULL
    /\ r.pc = "newContext"
    /\ Alive(r)
    /\ contexts' = contexts + 1
    /\ inflight' = Resume(r, [r EXCEPT !.pc = "respond",
                                       !.context = NewContextId])
    /\ UNCHANGED <<ReqFrame, pages>>

(* The work on the page: page.goto and the settle wait, _selectTrainLine,   *)
(* _performStationSearch returning true, and _extractTrainDataFromPage      *)
(* returning a record, or null when nothing valid was on the page.  None of *)
(* it reads or writes the scraper's fields.                                 *)
PageDone(r, matches) ==
    /\ returned = NULL
    /\ r.pc = "page"
    /\ Alive(r)
    /\ inflight' = Resume(r, [r EXCEPT !.pc = "respond",
            !.response = _extractTrainDataFromPage(matches, r.call.origin,
                                r.call.destination, r.call.line)])
    /\ UNCHANGED <<ReqFrame, contexts, pages>>

(* page.goto or a wait rejected, _performStationSearch returned false, or   *)
(* page.evaluate rejected inside _extractTrainDataFromPage: null            *)
PageFail(r) ==
    /\ returned = NULL
    /\ r.pc = "page"
    /\ inflight' = Resume(r, [r EXCEPT !.pc = "respond"])
    /\ UNCHANGED <<ReqFrame, contexts, pages>>

(* scrapeTrainSchedule dropping what _attemptDataExtraction returned: the   *)
(* simulated record is cached and returned whether or not a live record     *)
(* was extracted                                                            *)
RespondSimulatedOnly(r) ==
    LET cacheKey == _getCacheKey(r.call.origin, r.call.destination)
        simulatedData == _simulateTrainData(r.call.origin, r.call.destination,
                                            r.call.line)
    IN
    /\ returned = NULL
    /\ r.pc = "respond"
    /\ cache' = CacheSet(cacheKey, simulatedData, r.response # NULL)
    /\ returned' = Returned(r.call, simulatedData, "simulated", r.response # NULL)
    /\ inflight' = Finish(r)
    /\ UNCHANGED <<ConfigVars, now, BrowserVars, contexts, pages,
                   CleanupVars, calls>>

(* scrapeTrainSchedule that caches live records only *)
RespondFallbackNotCached(r) ==
    LET cacheKey == _getCacheKey(r.call.origin, r.call.destination)
        simulatedData == _simulateTrainData(r.call.origin, r.call.destination,
                                            r.call.line)
    IN
    /\ returned = NULL
    /\ r.pc = "respond"
    /\ IF r.response # NULL
       THEN /\ cache' = CacheSet(cacheKey, r.response, TRUE)
            /\ returned' = Returned(r.call, r.response, "live", TRUE)
       ELSE /\ UNCHANGED cache
            /\ returned' = Returned(r.call, simulatedData, "simulated", FALSE)
    /\ inflight' = Finish(r)
    /\ UNCHANGED <<ConfigVars, now, BrowserVars, contexts, pages,
                   CleanupVars, calls>>

(* The finally of _attemptDataExtraction (page.close() and context.close(), *)
(* errors logged and swallowed), then scrapeTrainSchedule caches and        *)
(* returns the live record or falls back to _simulateTrainData.             *)
Respond(r) ==
    LET cacheKey == _getCacheKey(r.call.origin, r.call.destination)
        simulatedData == _simulateTrainData(r.call.origin, r.call.destination,
                                            r.call.line)
    IN
    /\ returned = NULL
    /\ r.pc = "respond"
    /\ IF r.response # NULL
       THEN /\ cache' = CacheSet(cacheKey, r.response, TRUE)
            /\ returned' = Returned(r.call, r.response, "live", TRUE)
       ELSE /\ cache' = CacheSet(cacheKey, simulatedData, FALSE)
            /\ returned' = Returned(r.call, simulatedData, "simulated", FALSE)
    /\ inflight' = Finish(r)
    /\ UNCHANGED <<ConfigVars, now, BrowserVars, contexts, pages,
                   CleanupVars, calls>>

-----------------------------------------------------------------------------
(* cleanup(): await this._closeBrowser(); this.cache.clear() *)

ReqVars == <<inflight, returned, calls, contexts, pages>>

(* cleanup() entered: with a browser, browser.close() is awaited; without,  *)
(* _closeBrowser does nothing and the cache is cleared                      *)
CleanupStart ==
    /\ returned = NULL
    /\ cleanupPc \in {"idle", "done", "doneCloseFailed"}
    /\ IF browser # 0
       THEN /\ closing' = browser
            /\ cleanupPc' = "closing"
            /\ UNCHANGED cache
       ELSE /\ cache' = <<>>
            /\ cleanupPc' = "done"
            /\ UNCHANGED closing
    /\ UNCHANGED <<ConfigVars, now, BrowserVars, ReqVars>>

(* browser.close() resolved; finally this.browser = null; cache.clear() *)
CleanupCloseOk ==
    /\ returned = NULL
    /\ cleanupPc = "closing"
    /\ openBrowsers' = openBrowsers \ {closing}
    /\ browser' = 0
    /\ cache' = <<>>
    /\ closing' = 0
    /\ cleanupPc' = "done"
    /\ UNCHANGED <<ConfigVars, now, launched, ReqVars>>

(* browser.close() rejected with no try around it: cleanup() rejects, the   *)
(* reference and the cache stay                                             *)
CleanupCloseFailUncaught ==
    /\ returned = NULL
    /\ cleanupPc = "closing"
    /\ closing' = 0
    /\ cleanupPc' = "rejected"
    /\ UNCHANGED <<ConfigVars, now, cache, BrowserVars, ReqVars>>

(* browser.close() rejected: the error is logged; finally and clear alike *)
CleanupCloseFail ==
    /\ returned = NULL
    /\ cleanupPc = "closing"
    /\ browser' = 0
    /\ cache' = <<>>
    /\ closing' = 0
    /\ cleanupPc' = "doneCloseFailed"
    /\ UNCHANGED <<ConfigVars, now, launched, openBrowsers, ReqVars>>

(* the caller receives the record; nothing else runs in between *)
Deliver ==
    /\ returned # NULL
    /\ returned' = NULL
    /\ UNCHANGED <<ConfigVars, now, cache, BrowserVars, contexts, pages,
                   inflight, CleanupVars, calls>>

(* time passes, up to the moment the first cache entries expire *)
Tick ==
    /\ returned = NULL
    /\ NowMs < cacheDuration * 1000
    /\ now' = now + 1
    /\ UNCHANGED <<ConfigVars, cache, BrowserVars, ReqVars, CleanupVars>>

Next ==
    \/ \E r \in Requests : scrapeTrainSchedule(r[1], r[2], r[3])
    \/ \E r \in InFlight : LaunchOk(r)
    \/ \E r \in InFlight : LaunchFail(r)
    \/ \E r \in InFlight : NewContextOk(r)
    \/ \E r \in InFlight : NewContextFail(r)
    \/ \E r \in InFlight : NewPageFail(r)
    \/ \E r \in InFlight, c \in PageContents : PageDone(r, c)
    \/ \E r \in InFlight : PageFail(r)
    \/ \E r \in InFlight : Respond(r)
    \/ CleanupStart
    \/ CleanupCloseOk
    \/ CleanupCloseFail
    \/ Deliver
    \/ Tick

Spec == Init /\ [][Next]_vars

(* The scraper as constructed by default: USE_BROWSER_SCRAPER unset, no    *)
(* browser is ever launched.                                               *)
InitDefault == Init /\ ~useBrowserScraper

NextDefault ==
    \/ \E r \in DefaultRequests : scrapeTrainSchedule(r[1], r[2], r[3])
    \/ \E r \in InFlight : Respond(r)
    \/ CleanupStart
    \/ Deliver
    \/ Tick

SpecDefault == InitDefault /\ [][NextDefault]_vars

-----------------------------------------------------------------------------
(* _extractTrainDataFromPage on its own, over more pages: every sequence   *)
(* of up to MaxMatches matches drawn from Tokens, at every time of the     *)
(* clock.                                                                  *)

Tokens ==
    { M(T(0, 0, ":"), 0, "On Time"),          \* "0:00"
      M(T(23, 59, ":"), 0, "On Time"),        \* "23:59"
      M(T(24, 0, ":"), 0, "On Time"),         \* "24:00"
      M(T(12, 60, ":"), 0, "On Time"),        \* "12:60"
      M(T0(8, 5, ":"), 0, "On Time"),         \* "08:05", also of "08:05 AM"
      M(T(8, 5, ":"), 0, "On Time"),          \* "8:05"
      M(T0(7, 59, ":"), 4, "Delayed"),        \* "07:59", in "07:59 4 min"
      M(T(8, 5, "."), 0, "On Time"),          \* "8.05"
      M(T(23, 51, ":"), 0, "On Time") }       \* "23:51"

TokenPages == UNION { [1..n -> Tokens] : n \in 1..MaxMatches }

PageCall == [origin |-> <<"A", "b">>, destination |-> <<"c">>, line |-> "MRT-3"]

(* _extractTrainDataFromPage(page, origin, destination, line) resolved *)
ExtractPage(matches) ==
    /\ returned = NULL
    /\ returned' = [call |-> PageCall, matches |-> matches,
                    data |-> _extractTrainDataFromPage(matches, PageCall.origin,
                                PageCall.destination, PageCall.line)]
    /\ UNCHANGED <<ConfigVars, now, cache, BrowserVars, contexts, pages,
                   inflight, CleanupVars, calls>>

NextPage ==
    \/ \E matches \in TokenPages : ExtractPage(matches)
    \/ Deliver
    \/ Tick

InitPage == Init /\ useBrowserScraper

SpecPage == InitPage /\ [][NextPage]_vars

-----------------------------------------------------------------------------
(* The extraction chain of the Puppeteer RushScraper (the class that       *)
(* PlaywrightRushScraper replaced): RushScraper._extractTrainDataFromPage. *)
(* A page is what each strategy would find on it: whether station          *)
(* selectors are there, and the number of train times the DOM, the         *)
(* preloaded data and the captured API calls yield, and which of the       *)
(* methods throw on it (a page.evaluate that rejects, say).  A call        *)
(* records the strategies it has invoked.                                  *)

Methods == {"selection", "dom", "preloaded", "network"}

LegacyPages ==
    [selectors : BOOLEAN, dom : 0..MaxFound, preloaded : 0..MaxFound,
     network : 0..MaxFound, throws : SUBSET Methods]

ChainCall(pc, page, invoked) == [pc |-> pc, page |-> page, invoked |-> invoked]

(* what a strategy returns: a record when it found train times, else null *)
Found(strategy, n) ==
    IF n > 0 THEN [source |-> strategy, entries |-> n] ELSE NULL

(* the try / catch around the body of each method: what is thrown inside   *)
(* is logged and null (false for _tryStationSelection) is returned         *)
Caught(page, method, value, onError) ==
    IF method \in page.throws THEN onError ELSE value

ChainFrame == <<ConfigVars, now, cache, BrowserVars, contexts, pages,
                CleanupVars>>

(* _extractTrainDataFromPage entered: _tryStationSelection is awaited *)
RushScraper_extractTrainDataFromPage(page) ==
    /\ returned = NULL
    /\ inflight = EmptyBag
    /\ calls < MaxCalls
    /\ calls' = calls + 1
    /\ inflight' = Suspend(ChainCall("selection", page, <<>>))
    /\ UNCHANGED <<ChainFrame, returned>>

(* Method 1, first half: with selectors the DOM is mined next, without     *)
(* them the preloaded data is looked at                                    *)
_tryStationSelection(r) ==
    /\ returned = NULL
    /\ r.pc = "selection"
    /\ inflight' = Resume(r, [r EXCEPT
            !.pc = IF Caught(r.page, "selection", r.page.selectors, FALSE)
                   THEN "dom" ELSE "preloaded"])
    /\ UNCHANGED <<ChainFrame, returned, calls>>

(* a chain that goes on to the next method whatever the DOM yielded *)
_extractScheduleFromDOMNoReturn(r) ==
    /\ returned = NULL
    /\ r.pc = "dom"
    /\ inflight' = Resume(r, [r EXCEPT !.pc = "preloaded",
                                       !.invoked = Append(r.invoked, "dom")])
    /\ UNCHANGED <<ChainFrame, returned, calls>>

(* Method 1: _extractScheduleFromDOM resolved; its record is returned,     *)
(* or Method 2 is next                                                     *)
_extractScheduleFromDOM(r) ==
    LET scheduleData == Caught(r.page, "dom", Found("dom", r.page.dom), NULL)
        invoked == Append(r.invoked, "dom")
    IN
    /\ returned = NULL
    /\ r.pc = "dom"
    /\ IF scheduleData # NULL
       THEN /\ returned' = [result |-> scheduleData, invoked |-> invoked,
                            page |-> r.page]
            /\ inflight' = Finish(r)
       ELSE /\ inflight' = Resume(r, [r EXCEPT !.pc = "preloaded",
                                               !.invoked = invoked])
            /\ UNCHANGED returned
    /\ UNCHANGED <<ChainFrame, calls>>

(* _extractPreloadedData without its try / catch: what is thrown inside    *)
(* reaches the catch of _extractTrainDataFromPage, which returns null      *)
_extractPreloadedDataUncaught(r) ==
    LET preloadedData == Found("preloaded", r.page.preloaded)
        invoked == Append(r.invoked, "preloaded")
    IN
    /\ returned = NULL
    /\ r.pc = "preloaded"
    /\ IF "preloaded" \in r.page.throws
       THEN /\ returned' = [result |-> NULL, invoked |-> invoked,
                            page |-> r.page]
            /\ inflight' = Finish(r)
       ELSE IF preloadedData # NULL
       THEN /\ returned' = [result |-> preloadedData, invoked |-> invoked,
                            page |-> r.page]
            /\ inflight' = Finish(r)
       ELSE /\ inflight' = Resume(r, [r EXCEPT !.pc = "network",
                                               !.invoked = invoked])
            /\ UNCHANGED returned
    /\ UNCHANGED <<ChainFrame, calls>>

(* Method 2: _extractPreloadedData resolved *)
_extractPreloadedData(r) ==
    LET preloadedData == Caught(r.page, "preloaded",
                                Found("preloaded", r.page.preloaded), NULL)
        invoked == Append(r.invoked, "preloaded")
    IN
    /\ returned = NULL
    /\ r.pc = "preloaded"
    /\ IF preloadedData # NULL
       THEN /\ returned' = [result |-> preloadedData, invoked |-> invoked,
                            page |-> r.page]
            /\ inflight' = Finish(r)
       ELSE /\ inflight' = Resume(r, [r EXCEPT !.pc = "network",
                                               !.invoked = invoked])
            /\ UNCHANGED returned
    /\ UNCHANGED <<ChainFrame, calls>>

(* Method 3: _interceptNetworkData resolved; its record or null is         *)
(* returned                                                                *)
_interceptNetworkData(r) ==
    LET networkData == Caught(r.page, "network",
                              Found("network", r.page.network), NULL)
        invoked == Append(r.invoked, "network")
    IN
    /\ returned = NULL
    /\ r.pc = "network"
    /\ returned' = [result |-> networkData, invoked |-> invoked,
                    page |-> r.page]
    /\ inflight' = Finish(r)
    /\ UNCHANGED <<ChainFrame, calls>>

NextChain ==
    \/ \E page \in LegacyPages : RushScraper_extractTrainDataFromPage(page)
    \/ \E r \in InFlight : _tryStationSelection(r)
    \/ \E r \in InFlight : _extractScheduleFromDOM(r)
    \/ \E r \in InFlight : _extractPreloadedData(r)
    \/ \E r \in InFlight : _interceptNetworkData(r)
    \/ Deliver

InitChain == Init /\ useBrowserScraper

SpecChain == InitChain /\ [][NextChain]_vars

-----------------------------------------------------------------------------
(* cleanUserInput (src/utils/helpers.js) on its own, over every text of up *)
(* to MaxText characters drawn from TextChars: a letter, a blank, a tab and *)
(* a character the last replace strips.                                     *)

TextChars == {"a", " ", "\t", "!"}

Texts == UNION { [1..n -> TextChars] : n \in 0..MaxText }

(* \s of the regular expressions, and the white space String.trim removes *)
IsWhitespace(c) == c \in {" ", "\t"}

(* String.prototype.trim *)
RECURSIVE trim(_)
trim(s) ==
    IF s = <<>> THEN s
    ELSE IF IsWhitespace(Head(s)) THEN trim(Tail(s))
    ELSE IF IsWhitespace(s[Len(s)]) THEN trim(SubSeq(s, 1, Len(s) - 1))
    ELSE s

(* replace(/\s+/g, ' '): every maximal run of white space becomes one blank *)
RECURSIVE CollapseWhitespace(_)
CollapseWhitespace(s) ==
    IF s = <<>> THEN s
    ELSE IF IsWhitespace(Head(s))
         THEN IF Len(s) > 1 /\ IsWhitespace(s[2])
              THEN CollapseWhitespace(Tail(s))
              ELSE <<" ">> \o CollapseWhitespace(Tail(s))
         ELSE <<Head(s)>> \o CollapseWhitespace(Tail(s))

(* the class [a-zA-Z0-9\s\-\._] *)
Preserved(c) == c \in {"a", "b", "c", "A", "B", "C", "-", ".", "_"} \/ IsWhitespace(c)

(* replace(/[^a-zA-Z0-9\s\-\._]/g, '') *)
StripSpecial(s) == SelectSeq(s, Preserved)

cleanUserInput(text) ==
    IF text = <<>> THEN <<>>
    ELSE StripSpecial(CollapseWhitespace(trim(text)))

(* cleanUserInput(text) returned *)
CleanInput(text) ==
    /\ returned = NULL
    /\ returned' = [text |-> text, cleaned |-> cleanUserInput(text)]
    /\ UNCHANGED <<ConfigVars, now, cache, BrowserVars, contexts, pages,
                   inflight, CleanupVars, calls>>

NextClean ==
    \/ \E text \in Texts : CleanInput(text)
    \/ Deliver

SpecClean == Init /\ [][NextClean]_vars

-----------------------------------------------------------------------------
(* POST /webhook (app.js) and verifyWebhookSignature (src/utils/helpers.js). *)
(* A signature header is [scheme, hex]: the text up to and including "="    *)
(* and the hex digits after it; no header at all is NULL.  The HMAC is not  *)
(* computed: the digest of a payload is DigestHexLen hex digits of which    *)
(* the first tells the payloads apart.                                      *)

Payloads ==
    { [tag |-> "1", json |-> TRUE,  format |-> TRUE],     \* a message event
      [tag |-> "2", json |-> TRUE,  format |-> FALSE],    \* not a page event
      [tag |-> "3", json |-> FALSE, format |-> FALSE] }   \* not JSON

HexDigest(payload) ==
    [i \in 1..DigestHexLen |-> IF i = 1 THEN payload.tag ELSE "0"]

Signature(scheme, hex) == [scheme |-> scheme, hex |-> hex]

(* the headers a request for a payload may carry *)
SignaturesFor(payload) ==
    LET digest == HexDigest(payload) IN
    { NULL,                                                 \* no header
      Signature("", <<>>),                                  \* an empty header
      Signature("sha1=", digest),                           \* another scheme
      Signature("sha256=", digest),                         \* the valid one
      Signature("sha256=", [digest EXCEPT ![1] = "f"]),     \* wrong digest
      Signature("sha256=", SubSeq(digest, 1, DigestHexLen - 1)),   \* too short
      Signature("sha256=", digest \o <<"0">>),              \* too long
      Signature("sha256=", <<>>) }                          \* scheme only

HttpRequests ==
    UNION { { [payload |-> p, signature |-> s] : s \in SignaturesFor(p) } :
            p \in Payloads }

(* Buffer.from(text).length of a header, its characters being ASCII *)
ByteLength(signature) ==
    (CASE signature.scheme = "sha256=" -> 7
       [] signature.scheme = "sha1=" -> 5
       [] OTHER -> 0) + Len(signature.hex)

(* crypto.timingSafeEqual(a, b): throws a RangeError when the byte lengths  *)
(* differ, else tells whether the bytes are equal                           *)
timingSafeEqual(a, b) ==
    IF ByteLength(a) # ByteLength(b) THEN "throws"
    ELSE IF a = b THEN "true" ELSE "false"

(* verifyWebhookSignature(payload, signature, appSecret): "true", "false",  *)
(* or "throws"                                                              *)
verifyWebhookSignature(payload, signature) ==
    IF signature = NULL \/ signature.scheme # "sha256=" THEN "false"
    ELSE timingSafeEqual(signature, Signature("sha256=", HexDigest(payload)))

(* what res.status(code).send(...) hands back, and whether the request was  *)
(* handed to messengerBot.processMessage                                    *)
HttpResponse(request, status, processed) ==
    [request |-> request, status |-> status, processed |-> processed]

WebFrame == <<ConfigVars, now, cache, BrowserVars, contexts, pages, CleanupVars>>

(* app.post('/webhook'): up to the response, or to the await of            *)
(* messengerBot.processMessage(data)                                       *)
PostWebhook(request) ==
    LET verified == verifyWebhookSignature(request.payload, request.signature)
    IN
    /\ returned = NULL
    /\ calls < MaxCalls
    /\ calls' = calls + 1
    /\ IF verified = "throws"
       THEN /\ returned' = HttpResponse(request, 500, FALSE)
            /\ UNCHANGED inflight
       ELSE IF verified = "false"
       THEN /\ returned' = HttpResponse(request, 401, FALSE)
            /\ UNCHANGED inflight
       ELSE IF ~request.payload.json \/ ~request.payload.format
       THEN /\ returned' = HttpResponse(request, 400, FALSE)
            /\ UNCHANGED inflight
       ELSE /\ inflight' = Suspend([pc |-> "processMessage", request |-> request])
            /\ UNCHANGED returned
    /\ UNCHANGED WebFrame

(* processMessage resolved (it catches what is thrown inside it): 200 OK *)
ProcessMessageDone(r) ==
    /\ returned = NULL
    /\ r.pc = "processMessage"
    /\ returned' = HttpResponse(r.request, 200, TRUE)
    /\ inflight' = Finish(r)
    /\ UNCHANGED <<WebFrame, calls>>

NextWebhook ==
    \/ \E request \in HttpRequests : PostWebhook(request)
    \/ \E r \in InFlight : ProcessMessageDone(r)
    \/ Deliver

SpecWebhook == Init /\ [][NextWebhook]_vars

-----------------------------------------------------------------------------
(* ConversationHandler (src/unnamed/part_004, lines 29-604) with the        *)
(* StationManager of src/scraper/playwright-rush-scraper.js (from line      *)
(* 730).  A message is the text cleanUserInput returned, taken as a whole;  *)
(* the string functions are given by their values on Messages.              *)

Users == {"u1", "u2"}

Messages ==
    { "", "hi", "help", "restart", "buttons", "Ayala", "ayala", "Cubao",
      "Recto", "Rekto", "xyz", "MRT-3", "lrt-2", "TYPE_STATION",
      "BACK_TO_LINES", "MORE_MRT-3" }

Lower(message) ==
    CASE message = "Ayala" -> "ayala"
      [] message = "Cubao" -> "cubao"
      [] message = "Recto" -> "recto"
      [] message = "Rekto" -> "rekto"
      [] message = "MRT-3" -> "mrt-3"
      [] message = "TYPE_STATION" -> "type_station"
      [] message = "BACK_TO_LINES" -> "back_to_lines"
      [] message = "MORE_MRT-3" -> "more_mrt-3"
      [] OTHER -> message

Upper(message) ==
    CASE message = "hi" -> "HI"
      [] message = "help" -> "HELP"
      [] message = "restart" -> "RESTART"
      [] message = "buttons" -> "BUTTONS"
      [] message = "Ayala" -> "AYALA"
      [] message = "ayala" -> "AYALA"
      [] message = "Cubao" -> "CUBAO"
      [] message = "Recto" -> "RECTO"
      [] message = "Rekto" -> "REKTO"
      [] message = "xyz" -> "XYZ"
      [] message = "lrt-2" -> "LRT-2"
      [] OTHER -> message

ConversationState ==
    [INITIAL |-> "initial",
     WAITING_FOR_ORIGIN |-> "waiting_for_origin",
     WAITING_FOR_ORIGIN_LINE |-> "waiting_for_origin_line",
     WAITING_FOR_ORIGIN_STATION |-> "waiting_for_origin_station",
     WAITING_FOR_DESTINATION |-> "waiting_for_destination",
     WAITING_FOR_DESTINATION_LINE |-> "waiting_for_destination_line",
     WAITING_FOR_DESTINATION_STATION |-> "waiting_for_destination_station",
     COMPLETED |-> "completed"]

(* the order of the keys of StationManager.stations *)
LineOrder == <<"MRT-3", "LRT-1", "LRT-2">>

Lines == {LineOrder[i] : i \in 1..Len(LineOrder)}

(* StationManager.getLineStations: this.stations[line] || [] *)
getLineStations(line) ==
    CASE line = "MRT-3" ->
           <<"North Avenue", "Quezon Avenue", "GMA-Kamuning", "Cubao",
             "Santolan-Annapolis", "Ortigas", "Shaw Boulevard", "Boni",
             "Guadalupe", "Buendia", "Ayala", "Magallanes", "Taft Avenue">>
      [] line = "LRT-1" ->
           <<"Roosevelt", "Balintawak", "Monumento", "5th Avenue", "R. Papa",
             "Abad Santos", "Blumentritt", "Tayuman", "Bambang",
             "Doroteo Jose", "Carriedo", "Central Terminal", "United Nations",
             "Pedro Gil", "Quirino", "Vito Cruz", "Gil Puyat", "Libertad",
             "EDSA", "Baclaran">>
      [] line = "LRT-2" ->
           <<"Antipolo", "Marikina", "Santolan", "Katipunan", "Anonas",
             "Cubao", "Betty Go-Belmonte", "Gilmore", "J. Ruiz", "V. Mapa",
             "Pureza", "Legarda", "Recto">>
      [] OTHER -> <<>>

(* a JavaScript null where a string is expected; like null it is falsy *)
none == ""

OnLine(station, line) ==
    \E i \in 1..Len(getLineStations(line)) : getLineStations(line)[i] = station

(* StationManager.findStationLine: stationToLine is filled line by line,   *)
(* a later line overwriting an earlier one                                 *)
findStationLine(stationName) ==
    IF \E k \in 1..Len(LineOrder) : OnLine(stationName, LineOrder[k])
    THEN LineOrder[CHOOSE k \in 1..Len(LineOrder) :
                       /\ OnLine(stationName, LineOrder[k])
                       /\ \A j \in (k + 1)..Len(LineOrder) :
                             ~OnLine(stationName, LineOrder[j])]
    ELSE none

(* Array.prototype.indexOf, counting from 0; -1 when absent *)
indexOf(s, x) ==
    IF \E i \in 1..Len(s) : s[i] = x
    THEN (CHOOSE i \in 1..Len(s) : s[i] = x /\ \A j \in 1..(i - 1) : s[j] # x) - 1
    ELSE 0 - 1

(* StationManager.getRouteInfo: the route's line, or none for no route *)
getRouteInfo(origin, destination) ==
    LET originLine == findStationLine(origin)
        destinationLine == findStationLine(destination)
    IN  IF originLine = none \/ destinationLine = none THEN none
        ELSE IF originLine = destinationLine
        THEN IF indexOf(getLineStations(originLine), origin)
                  = indexOf(getLineStations(originLine), destination)
             THEN none
             ELSE originLine
        ELSE "transfer"

(* StationManager.validateStation on Messages: the exact match without     *)
(* regard to case, then the partial match; none of the other messages is   *)
(* part of a station name or has one as a part                             *)
validateStation(message) ==
    CASE Lower(message) = "ayala" -> "Ayala"
      [] Lower(message) = "cubao" -> "Cubao"
      [] Lower(message) = "recto" -> "Recto"
      [] OTHER -> none

(* getStationSuggestions(message).length > 0 on Messages: "Rekto" is one   *)
(* letter from "Recto"; no other message is within similarity 0.3 of a     *)
(* station name it is not                                                  *)
HasSuggestions(message) == message = "Rekto"

(* isGreeting on Messages: "hi", "help", and "restart" for its "start" *)
isGreeting(text) == Lower(text) \in {"hi", "help", "restart"}

(* A session: its state and data.origin.  The other data the handlers      *)
(* store (selected_origin_line, selected_destination_line,                 *)
(* last_query_time) are read by nothing and left out.                      *)
Session(state, origin) == [state |-> state, origin |-> origin]

NewSession == Session(ConversationState.INITIAL, none)

(* What a handler does: the session it leaves, its reply, and the call of  *)
(* scrapeTrainSchedule it awaits (NULL when it awaits none).               *)
Outcome(session, reply, scrape) ==
    [session |-> session, reply |-> reply, scrape |-> scrape]

_getOriginSelectionOptions == "origin_options"
_getDestinationSelectionOptions == "destination_options"

_handleInitialState(session, message) ==
    IF isGreeting(message) \/ Lower(message) \in {"start", "begin", "restart"}
    THEN Outcome([session EXCEPT !.state = ConversationState.WAITING_FOR_ORIGIN],
                 _getOriginSelectionOptions, NULL)
    ELSE IF validateStation(message) # none
    THEN Outcome([session EXCEPT !.origin = validateStation(message),
                                 !.state = ConversationState.WAITING_FOR_DESTINATION],
                 _getDestinationSelectionOptions, NULL)
    ELSE Outcome([session EXCEPT !.state = ConversationState.WAITING_FOR_ORIGIN],
                 IF HasSuggestions(message) THEN "suggestions" ELSE "not_found",
                 NULL)

(* _clearUserSession, then _setUserState on the session made anew *)
Restarted ==
    Outcome([NewSession EXCEPT !.state = ConversationState.WAITING_FOR_ORIGIN],
            _getOriginSelectionOptions, NULL)

RECURSIVE _handleOriginInput(_, _)

_handleOriginLineSelection(session, message) ==
    IF Upper(message) \in Lines
    THEN Outcome([session EXCEPT !.state = ConversationState.WAITING_FOR_ORIGIN_STATION],
                 "line_stations", NULL)
    ELSE IF Upper(message) = "TYPE_STATION"
    THEN Outcome([session EXCEPT !.state = ConversationState.WAITING_FOR_ORIGIN],
                 "type_station", NULL)
    ELSE _handleOriginInput(session, message)

_handleOriginInput(session, message) ==
    IF Lower(message) = "help" THEN Outcome(session, "help", NULL)
    ELSE IF Lower(message) \in {"restart", "start over"} THEN Restarted
    ELSE IF Lower(message) \in {"buttons", "quick replies"}
    THEN Outcome([session EXCEPT !.state = ConversationState.WAITING_FOR_ORIGIN],
                 _getOriginSelectionOptions, NULL)
    ELSE IF Upper(message) \in Lines
    THEN _handleOriginLineSelection(
             [session EXCEPT !.state = ConversationState.WAITING_FOR_ORIGIN_LINE],
             message)
    ELSE IF validateStation(message) # none
    THEN Outcome([session EXCEPT !.origin = validateStation(message),
                                 !.state = ConversationState.WAITING_FOR_DESTINATION],
                 _getDestinationSelectionOptions, NULL)
    ELSE Outcome(session,
                 IF HasSuggestions(message) THEN "suggestions" ELSE "not_found",
                 NULL)

(* message.startsWith('MORE_') on Messages *)
StartsWithMore(message) == message = "MORE_MRT-3"

(* _handleOriginStationSelection going on to the destination whatever the *)
(* message was                                                             *)
_handleOriginStationSelectionUnvalidated(session, message) ==
    IF message = "BACK_TO_LINES"
    THEN Outcome([session EXCEPT !.state = ConversationState.WAITING_FOR_ORIGIN],
                 _getOriginSelectionOptions, NULL)
    ELSE IF StartsWithMore(message) THEN Outcome(session, "more_stations", NULL)
    ELSE Outcome([session EXCEPT !.origin = validateStation(message),
                                 !.state = ConversationState.WAITING_FOR_DESTINATION],
                 _getDestinationSelectionOptions, NULL)

_handleOriginStationSelection(session, message) ==
    IF message = "BACK_TO_LINES"
    THEN Outcome([session EXCEPT !.state = ConversationState.WAITING_FOR_ORIGIN],
                 _getOriginSelectionOptions, NULL)
    ELSE IF StartsWithMore(message) THEN Outcome(session, "more_stations", NULL)
    ELSE IF validateStation(message) # none
    THEN Outcome([session EXCEPT !.origin = validateStation(message),
                                 !.state = ConversationState.WAITING_FOR_DESTINATION],
                 _getDestinationSelectionOptions, NULL)
    ELSE Outcome(session, "invalid_station", NULL)

RECURSIVE _handleDestinationInput(_, _)

_handleDestinationLineSelection(session, message) ==
    IF Upper(message) \in Lines
    THEN Outcome([session EXCEPT !.state =
                        ConversationState.WAITING_FOR_DESTINATION_STATION],
                 "line_stations", NULL)
    ELSE IF Upper(message) = "TYPE_STATION"
    THEN Outcome([session EXCEPT !.state = ConversationState.WAITING_FOR_DESTINATION],
                 "type_station", NULL)
    ELSE _handleDestinationInput(session, message)

(* the arguments of this.rushScraper.scrapeTrainSchedule *)
ScrapeCall(origin, destination, line) ==
    [origin |-> origin, destination |-> destination, line |-> line]

(* _handleDestinationInput asking for the schedule of whatever station    *)
(* the message names, the origin itself included                           *)
_handleDestinationInputUnchecked(session, message) ==
    LET origin == session.origin
        validatedDestination == validateStation(message)
    IN
    IF Lower(message) = "help" THEN Outcome(session, "help", NULL)
    ELSE IF Lower(message) \in {"restart", "start over"} THEN Restarted
    ELSE IF Lower(message) \in {"buttons", "quick replies"}
    THEN Outcome(session, _getDestinationSelectionOptions, NULL)
    ELSE IF origin = none
    THEN Outcome([session EXCEPT !.state = ConversationState.WAITING_FOR_ORIGIN],
                 _getOriginSelectionOptions, NULL)
    ELSE IF Upper(message) \in Lines
    THEN _handleDestinationLineSelection(
             [session EXCEPT !.state = ConversationState.WAITING_FOR_DESTINATION_LINE],
             message)
    ELSE IF validatedDestination = none
    THEN Outcome(session,
                 IF HasSuggestions(message) THEN "suggestions" ELSE "not_found",
                 NULL)
    ELSE Outcome(session, "awaiting",
                 ScrapeCall(origin, validatedDestination,
                            getRouteInfo(origin, validatedDestination)))

(* _handleDestinationInput up to its await of scrapeTrainSchedule *)
_handleDestinationInput(session, message) ==
    LET origin == session.origin
        validatedDestination == validateStation(message)
    IN
    IF Lower(message) = "help" THEN Outcome(session, "help", NULL)
    ELSE IF Lower(message) \in {"restart", "start over"} THEN Restarted
    ELSE IF Lower(message) \in {"buttons", "quick replies"}
    THEN Outcome(session, _getDestinationSelectionOptions, NULL)
    ELSE IF origin = none
    THEN Outcome([session EXCEPT !.state = ConversationState.WAITING_FOR_ORIGIN],
                 _getOriginSelectionOptions, NULL)
    ELSE IF Upper(message) \in Lines
    THEN _handleDestinationLineSelection(
             [session EXCEPT !.state = ConversationState.WAITING_FOR_DESTINATION_LINE],
             message)
    ELSE IF validatedDestination = none
    THEN Outcome(session,
                 IF HasSuggestions(message) THEN "suggestions" ELSE "not_found",
                 NULL)
    ELSE IF Lower(origin) = Lower(validatedDestination)
    THEN Outcome(session, "same_station", NULL)
    ELSE IF getRouteInfo(origin, validatedDestination) = none
    THEN Outcome(session, "no_route", NULL)
    ELSE Outcome(session, "awaiting",
                 ScrapeCall(origin, validatedDestination,
                            getRouteInfo(origin, validatedDestination)))

_handleDestinationStationSelection(session, message) ==
    IF message = "BACK_TO_LINES"
    THEN Outcome([session EXCEPT !.state = ConversationState.WAITING_FOR_DESTINATION],
                 _getDestinationSelectionOptions, NULL)
    ELSE IF StartsWithMore(message) THEN Outcome(session, "more_stations", NULL)
    ELSE _handleDestinationInput(session, message)

(* _getUserSession: the session of the user, made when there is none *)
_getUserSession(userId) ==
    IF userId \in DOMAIN userSessions THEN userSessions[userId] ELSE NewSession

(* this.userSessions with the session of one user replaced *)
SetSession(userId, session) ==
    [u \in DOMAIN userSessions \cup {userId} |->
        IF u = userId THEN session ELSE userSessions[u]]

(* the switch of handleMessage with COMPLETED left to the handler of       *)
(* WAITING_FOR_DESTINATION                                                 *)
DispatchCompletedAsDestination(session, message) ==
    LET State == ConversationState IN
    CASE session.state = State.INITIAL -> _handleInitialState(session, message)
      [] session.state = State.WAITING_FOR_ORIGIN ->
            _handleOriginInput(session, message)
      [] session.state = State.WAITING_FOR_ORIGIN_LINE ->
            _handleOriginLineSelection(session, message)
      [] session.state = State.WAITING_FOR_ORIGIN_STATION ->
            _handleOriginStationSelection(session, message)
      [] session.state = State.WAITING_FOR_DESTINATION_LINE ->
            _handleDestinationLineSelection(session, message)
      [] session.state = State.WAITING_FOR_DESTINATION_STATION ->
            _handleDestinationStationSelection(session, message)
      [] OTHER -> _handleDestinationInput(session, message)

(* the switch of handleMessage on the state of the session *)
Dispatch(session, message) ==
    LET State == ConversationState IN
    CASE session.state = State.INITIAL -> _handleInitialState(session, message)
      [] session.state = State.WAITING_FOR_ORIGIN ->
            _handleOriginInput(session, message)
      [] session.state = State.WAITING_FOR_ORIGIN_LINE ->
            _handleOriginLineSelection(session, message)
      [] session.state = State.WAITING_FOR_ORIGIN_STATION ->
            _handleOriginStationSelection(session, message)
      [] session.state = State.WAITING_FOR_DESTINATION ->
            _handleDestinationInput(session, message)
      [] session.state = State.WAITING_FOR_DESTINATION_LINE ->
            _handleDestinationLineSelection(session, message)
      [] session.state = State.WAITING_FOR_DESTINATION_STATION ->
            _handleDestinationStationSelection(session, message)
      [] OTHER ->
            _handleInitialState([session EXCEPT !.state = State.INITIAL], message)

(* what handleMessage returns to the bot *)
Reply(userId, reply) == [userId |-> userId, reply |-> reply]

ConvFrame == <<useBrowserScraper, now, cache, BrowserVars, contexts, pages,
               CleanupVars, calls>>

(* handleMessage(userId, message), up to its return or to the await of     *)
(* scrapeTrainSchedule in _handleDestinationInput; each user has at most   *)
(* one schedule request outstanding                                        *)
handleMessage(userId, message) ==
    LET outcome == Dispatch(_getUserSession(userId), message) IN
    /\ returned = NULL
    /\ IF message = ""
       THEN /\ returned' = Reply(userId, "invalid_station")
            /\ UNCHANGED <<userSessions, inflight>>
       ELSE /\ userSessions' = SetSession(userId, outcome.session)
            /\ IF outcome.scrape = NULL
               THEN /\ returned' = Reply(userId, outcome.reply)
                    /\ UNCHANGED inflight
               ELSE /\ \A r \in InFlight : r.userId # userId
                    /\ inflight' = Suspend([pc |-> "scrapeTrainSchedule",
                                            userId |-> userId,
                                            call |-> outcome.scrape])
                    /\ UNCHANGED returned
    /\ UNCHANGED ConvFrame

(* scrapeTrainSchedule resolved with a record, as it always does: the      *)
(* schedule is the reply and the session is COMPLETED                      *)
ScheduleReturned(r) ==
    /\ returned = NULL
    /\ r.pc = "scrapeTrainSchedule"
    /\ userSessions' = SetSession(r.userId,
            [_getUserSession(r.userId) EXCEPT !.state = ConversationState.COMPLETED])
    /\ returned' = Reply(r.userId, "schedule")
    /\ inflight' = Finish(r)
    /\ UNCHANGED ConvFrame

(* an hour without a message of the user: _cleanupExpiredSessions deletes  *)
(* the session at the next _getUserSession                                 *)
SessionExpired(userId) ==
    /\ returned = NULL
    /\ userId \in DOMAIN userSessions
    /\ userSessions' = [u \in DOMAIN userSessions \ {userId} |-> userSessions[u]]
    /\ UNCHANGED <<ConvFrame, inflight, returned>>

NextConversation ==
    \/ \E userId \in Users, message \in Messages : handleMessage(userId, message)
    \/ \E r \in InFlight : ScheduleReturned(r)
    \/ \E userId \in Users : SessionExpired(userId)
    \/ Deliver

(* new ConversationHandler(): its scraper is made with useBrowser: true *)
InitConversation == Init /\ useBrowserScraper

SpecConversation == InitConversation /\ [][NextConversation]_vars

-----------------------------------------------------------------------------
(* _attemptDataExtraction step by step: every operation it awaits on the   *)
(* context and the page is a step of its own, and so are the two closes of *)
(* its finally.  DEBUG_SCREENSHOTS is unset: no screenshot is taken.       *)

(* one operation performed on the page or the context, and how it ended;   *)
(* the return statement taken is logged with the value it returns          *)
Op(op, target, ok) == [op |-> op, target |-> target, ok |-> ok]

Logged(r, op, target, ok) == Append(r.log, Op(op, target, ok))

(* the finally of _attemptDataExtraction is entered with the value the try *)
(* or the catch returns: page.close() comes first when there is a page,    *)
(* context.close() when there is only a context                            *)
Finally(r, response) ==
    [r EXCEPT !.response = response,
              !.pc = IF r.page # 0 THEN "page.close"
                     ELSE IF r.context # 0 THEN "context.close"
                     ELSE "respond",
              !.log = Logged(r, "return", response, response # NULL)]

(* browser.newContext() resolved; context.newPage() is awaited *)
ContextCreated(r) ==
    /\ returned = NULL
    /\ r.pc = "newContext"
    /\ Alive(r)
    /\ contexts' = contexts + 1
    /\ inflight' = Resume(r, [r EXCEPT !.pc = "newPage",
                                       !.context = NewContextId])
    /\ UNCHANGED <<ReqFrame, pages>>

(* context.newPage() resolved; page.goto(baseUrl) is awaited *)
PageCreated(r) ==
    /\ returned = NULL
    /\ r.pc = "newPage"
    /\ Alive(r)
    /\ pages' = pages + 1
    /\ inflight' = Resume(r, [r EXCEPT !.pc = "goto", !.page = NewPageId])
    /\ UNCHANGED <<ReqFrame, contexts>>

(* context.newPage() rejected: the catch returns null *)
PageCreateFailed(r) ==
    /\ returned = NULL
    /\ r.pc = "newPage"
    /\ inflight' = Resume(r, Finally(r, NULL))
    /\ UNCHANGED <<ReqFrame, contexts, pages>>

(* page.goto with a catch that navigates once more before giving up *)
GotoFailRetrying(r) ==
    /\ returned = NULL
    /\ r.pc = "goto"
    /\ LET tried == [r EXCEPT !.log = Logged(r, "goto", r.page, FALSE)]
       IN  inflight' = Resume(r, IF Len(r.log) = 0 THEN tried
                                 ELSE Finally(tried, NULL))
    /\ UNCHANGED <<ReqFrame, contexts, pages>>

(* page.goto(baseUrl, { waitUntil: 'networkidle', timeout }) resolved;     *)
(* page.waitForTimeout(5000) is awaited                                    *)
GotoOk(r) ==
    /\ returned = NULL
    /\ r.pc = "goto"
    /\ Alive(r)
    /\ inflight' = Resume(r, [r EXCEPT !.pc = "settle",
                                       !.log = Logged(r, "goto", r.page, TRUE)])
    /\ UNCHANGED <<ReqFrame, contexts, pages>>

(* page.goto rejected (a network error or the timeout): the catch logs it  *)
(* and returns null                                                        *)
GotoFail(r) ==
    /\ returned = NULL
    /\ r.pc = "goto"
    /\ inflight' = Resume(r,
            Finally([r EXCEPT !.log = Logged(r, "goto", r.page, FALSE)], NULL))
    /\ UNCHANGED <<ReqFrame, contexts, pages>>

(* the three waits of the try: after the navigation, after a selected line *)
(* and after a successful search                                           *)
Waits == {"settle", "lineWait", "searchWait"}

AfterWait(pc) ==
    CASE pc = "settle" -> "selectLine"
      [] pc = "lineWait" -> "search"
      [] pc = "searchWait" -> "extract"

(* page.waitForTimeout resolved *)
WaitOk(r) ==
    /\ returned = NULL
    /\ r.pc \in Waits
    /\ Alive(r)
    /\ inflight' = Resume(r, [r EXCEPT !.pc = AfterWait(r.pc)])
    /\ UNCHANGED <<ReqFrame, contexts, pages>>

(* page.waitForTimeout rejected (the page is gone): the catch returns null *)
WaitFail(r) ==
    /\ returned = NULL
    /\ r.pc \in Waits
    /\ inflight' = Resume(r, Finally(r, NULL))
    /\ UNCHANGED <<ReqFrame, contexts, pages>>

(* _selectTrainLine that waits and tries again until the line is selected *)
_selectTrainLineRetrying(r, selected) ==
    /\ returned = NULL
    /\ r.pc = "selectLine"
    /\ inflight' = Resume(r, [r EXCEPT !.pc = IF selected THEN "lineWait"
                                              ELSE "settle"])
    /\ UNCHANGED <<ReqFrame, contexts, pages>>

(* await this._selectTrainLine(page, line) returned: it catches its own    *)
(* errors; after a selection the page is given 2 s, else the search is next *)
_selectTrainLine(r, selected) ==
    /\ returned = NULL
    /\ r.pc = "selectLine"
    /\ inflight' = Resume(r, [r EXCEPT !.pc = IF selected THEN "lineWait"
                                              ELSE "search"])
    /\ UNCHANGED <<ReqFrame, contexts, pages>>

(* await this._performStationSearch(page, origin) returned: it catches its *)
(* own errors; false ends the attempt with null                            *)
_performStationSearch(r, searchSuccess) ==
    /\ returned = NULL
    /\ r.pc = "search"
    /\ LET searched == [r EXCEPT !.log = Logged(r, "search", r.page, searchSuccess)]
       IN  inflight' = Resume(r, IF searchSuccess
                                 THEN [searched EXCEPT !.pc = "searchWait"]
                                 ELSE Finally(searched, NULL))
    /\ UNCHANGED <<ReqFrame, contexts, pages>>

(* the pages _extractTrainDataFromPage may find: those of PageContents and *)
(* a page with nothing on it                                               *)
Extractions == PageContents \cup {<<>>}

(* await this._extractTrainDataFromPage(page, ...) returned a record, or   *)
(* null when nothing valid was on the page                                 *)
Extracted(r, matches) ==
    /\ returned = NULL
    /\ r.pc = "extract"
    /\ Alive(r)
    /\ LET trainData == _extractTrainDataFromPage(matches, r.call.origin,
                                    r.call.destination, r.call.line)
           extracted == [r EXCEPT !.log = Logged(r, "extract", r.page,
                                                 trainData # NULL)]
       IN  inflight' = Resume(r, Finally(extracted, trainData))
    /\ UNCHANGED <<ReqFrame, contexts, pages>>

(* page.waitForTimeout or page.evaluate rejected inside                    *)
(* _extractTrainDataFromPage: its catch returns null                       *)
ExtractFailed(r) ==
    /\ returned = NULL
    /\ r.pc = "extract"
    /\ inflight' = Resume(r,
            Finally([r EXCEPT !.log = Logged(r, "extract", r.page, FALSE)], NULL))
    /\ UNCHANGED <<ReqFrame, contexts, pages>>

(* the step after page.close(): context.close() *)
AfterPageClose(r) == IF r.context # 0 THEN "context.close" ELSE "respond"

(* finally whose page.close() is not in a try of its own: its error leaves *)
(* the finally, the context stays open and the call rejects                *)
PageCloseFailUncaught(r) ==
    /\ returned = NULL
    /\ r.pc = "page.close"
    /\ inflight' = Resume(r, [r EXCEPT !.pc = "respond", !.response = NULL,
                              !.log = Logged(r, "page.close", r.page, FALSE)])
    /\ UNCHANGED <<ReqFrame, contexts, pages>>

(* finally: await page.close() resolved *)
PageCloseOk(r) ==
    /\ returned = NULL
    /\ r.pc = "page.close"
    /\ inflight' = Resume(r, [r EXCEPT !.pc = AfterPageClose(r),
                              !.log = Logged(r, "page.close", r.page, TRUE)])
    /\ UNCHANGED <<ReqFrame, contexts, pages>>

(* finally: await page.close() rejected; the error is logged *)
PageCloseFail(r) ==
    /\ returned = NULL
    /\ r.pc = "page.close"
    /\ inflight' = Resume(r, [r EXCEPT !.pc = AfterPageClose(r),
                              !.log = Logged(r, "page.close", r.page, FALSE)])
    /\ UNCHANGED <<ReqFrame, contexts, pages>>

(* finally: await context.close() resolved; _attemptDataExtraction returns *)
ContextCloseOk(r) ==
    /\ returned = NULL
    /\ r.pc = "context.close"
    /\ inflight' = Resume(r, [r EXCEPT !.pc = "respond",
                              !.log = Logged(r, "context.close", r.context, TRUE)])
    /\ UNCHANGED <<ReqFrame, contexts, pages>>

(* finally: await context.close() rejected; the error is logged *)
ContextCloseFail(r) ==
    /\ returned = NULL
    /\ r.pc = "context.close"
    /\ inflight' = Resume(r, [r EXCEPT !.pc = "respond",
                              !.log = Logged(r, "context.close", r.context, FALSE)])
    /\ UNCHANGED <<ReqFrame, contexts, pages>>

(* the resolution of whatever a suspended call awaits *)
AttemptStep(r) ==
    \/ LaunchOk(r)
    \/ LaunchFail(r)
    \/ ContextCreated(r)
    \/ NewContextFail(r)
    \/ PageCreated(r)
    \/ PageCreateFailed(r)
    \/ GotoOk(r)
    \/ GotoFail(r)
    \/ WaitOk(r)
    \/ WaitFail(r)
    \/ \E selected \in BOOLEAN : _selectTrainLine(r, selected)
    \/ \E searchSuccess \in BOOLEAN : _performStationSearch(r, searchSuccess)
    \/ \E matches \in Extractions : Extracted(r, matches)
    \/ ExtractFailed(r)
    \/ PageCloseOk(r)
    \/ PageCloseFail(r)
    \/ ContextCloseOk(r)
    \/ ContextCloseFail(r)
    \/ Respond(r)

(* the same for any suspended call, one operation at a time *)
AttemptSteps ==
    \/ \E r \in InFlight : LaunchOk(r)
    \/ \E r \in InFlight : LaunchFail(r)
    \/ \E r \in InFlight : ContextCreated(r)
    \/ \E r \in InFlight : NewContextFail(r)
    \/ \E r \in InFlight : PageCreated(r)
    \/ \E r \in InFlight : PageCreateFailed(r)
    \/ \E r \in InFlight : GotoOk(r)
    \/ \E r \in InFlight : GotoFail(r)
    \/ \E r \in InFlight : WaitOk(r)
    \/ \E r \in InFlight : WaitFail(r)
    \/ \E r \in InFlight, selected \in BOOLEAN : _selectTrainLine(r, selected)
    \/ \E r \in InFlight, searchSuccess \in BOOLEAN :
            _performStationSearch(r, searchSuccess)
    \/ \E r \in InFlight, matches \in Extractions : Extracted(r, matches)
    \/ \E r \in InFlight : ExtractFailed(r)
    \/ \E r \in InFlight : PageCloseOk(r)
    \/ \E r \in InFlight : PageCloseFail(r)
    \/ \E r \in InFlight : ContextCloseOk(r)
    \/ \E r \in InFlight : ContextCloseFail(r)
    \/ \E r \in InFlight : Respond(r)

NextAttempt ==
    \/ \E r \in Requests : scrapeTrainSchedule(r[1], r[2], r[3])
    \/ AttemptSteps
    \/ Deliver

SpecAttempt == Init /\ [][NextAttempt]_vars

(* The scheduling the scraper runs under: every operation a call awaits    *)
(* (Playwright's launch, newContext, newPage, goto with its timeout, the   *)
(* fixed waits, the helpers that catch their own errors, the closes)       *)
(* settles, resolved or rejected, and a returned promise is delivered.     *)
Stages ==
    {"launch", "newContext", "newPage", "goto", "settle", "selectLine",
     "lineWait", "search", "searchWait", "extract", "page.close",
     "context.close", "respond"}

Settles(stage) == \E r \in InFlight : r.pc = stage /\ AttemptStep(r)

Fairness ==
    /\ \A stage \in Stages : WF_vars(Settles(stage))
    /\ WF_vars(Deliver)

(* one route, asked for by up to two callers at a time *)
LiveRequest == <<<<"A", "b">>, <<"c">>, "MRT-3">>

NextLive ==
    \/ scrapeTrainSchedule(LiveRequest[1], LiveRequest[2], LiveRequest[3])
    \/ AttemptSteps
    \/ Deliver

SpecLive == Init /\ [][NextLive]_vars /\ Fairness

-----------------------------------------------------------------------------
(* The station search on its own: _performStationSearch of the             *)
(* PlaywrightRushScraper step by step, one selector of dropdownSelectors   *)
(* at a time, and _useSearchBar of the Puppeteer RushScraper.  What the    *)
(* page does (an element is there or not, an operation rejects) is chosen  *)
(* at every step.                                                          *)

(* dropdownSelectors.length *)
DropdownSelectors == 7

SearchFrame == <<ConfigVars, now, cache, BrowserVars, contexts, pages, CleanupVars>>

(* a suspended search: the implementation running, the operation awaited,  *)
(* the index in dropdownSelectors of the selector probed next, the local   *)
(* suggestionClicked, and the operations performed so far                  *)
Search(impl, pc) ==
    [impl |-> impl, pc |-> pc, selector |-> 1, suggestionClicked |-> FALSE,
     log |-> <<>>]

SearchReturns(r, log, result) ==
    /\ returned' = [impl |-> r.impl, result |-> result, log |-> log]
    /\ inflight' = Finish(r)

(* _performStationSearch(page, stationName) called: searchInput.waitFor is *)
(* awaited                                                                 *)
PerformStationSearch ==
    /\ returned = NULL
    /\ inflight = EmptyBag
    /\ calls < MaxCalls
    /\ calls' = calls + 1
    /\ inflight' = Suspend(Search("playwright", "waitFor"))
    /\ UNCHANGED <<SearchFrame, returned>>

(* searchInput.waitFor({ state: 'visible' }) resolved: click, fill and     *)
(* type are next                                                           *)
InputVisible(r) ==
    /\ returned = NULL
    /\ r.pc = "waitFor"
    /\ inflight' = Resume(r, [r EXCEPT !.pc = "type"])
    /\ UNCHANGED <<SearchFrame, returned, calls>>

(* searchInput.click(), fill(''), type(stationName) and the 2 s wait for   *)
(* the suggestions resolved: the loop over dropdownSelectors starts        *)
Typed(r) ==
    /\ returned = NULL
    /\ r.pc = "type"
    /\ inflight' = Resume(r, [r EXCEPT !.pc = "probe",
                                       !.log = Logged(r, "type", 0, TRUE)])
    /\ UNCHANGED <<SearchFrame, returned, calls>>

(* what follows the body of the loop for one selector: the next selector,  *)
(* or after the last one (or a break) the code behind the loop, which      *)
(* presses Enter when no suggestion was clicked                            *)
AfterProbe(r, probe, clicked) ==
    LET probed == [r EXCEPT !.log = r.log \o probe,
                            !.suggestionClicked = clicked]
    IN  IF clicked
        THEN [probed EXCEPT !.pc = "resultWait"]
        ELSE IF r.selector < DropdownSelectors
        THEN [probed EXCEPT !.selector = r.selector + 1]
        ELSE [probed EXCEPT !.pc = "enter"]

(* suggestions.count() is 0, or no suggestion's text matches *)
ProbeNoMatch(r) ==
    /\ returned = NULL
    /\ r.pc = "probe"
    /\ inflight' = Resume(r,
            AfterProbe(r, <<Op("probe", r.selector, TRUE)>>, FALSE))
    /\ UNCHANGED <<SearchFrame, returned, calls>>

(* count() or textContent() rejected: the catch of the loop body logs it *)
ProbeThrows(r) ==
    /\ returned = NULL
    /\ r.pc = "probe"
    /\ inflight' = Resume(r,
            AfterProbe(r, <<Op("probe", r.selector, FALSE)>>, FALSE))
    /\ UNCHANGED <<SearchFrame, returned, calls>>

(* a suggestion matches and scrollIntoViewIfNeeded() or click() rejected:  *)
(* the same catch, suggestionClicked stays false                           *)
ProbeClickThrows(r) ==
    /\ returned = NULL
    /\ r.pc = "probe"
    /\ inflight' = Resume(r,
            AfterProbe(r, <<Op("probe", r.selector, TRUE),
                            Op("click", r.selector, FALSE)>>, FALSE))
    /\ UNCHANGED <<SearchFrame, returned, calls>>

(* the loop without its breaks: after a click the remaining selectors are  *)
(* probed as well                                                          *)
ProbeClickedNoBreak(r) ==
    /\ returned = NULL
    /\ r.pc = "probe"
    /\ LET probed == [r EXCEPT !.log = r.log \o <<Op("probe", r.selector, TRUE),
                                                 Op("click", r.selector, TRUE)>>,
                               !.suggestionClicked = TRUE]
       IN  inflight' = Resume(r, IF r.selector < DropdownSelectors
                                 THEN [probed EXCEPT !.selector = r.selector + 1]
                                 ELSE [probed EXCEPT !.pc = "resultWait"])
    /\ UNCHANGED <<SearchFrame, returned, calls>>

(* a suggestion matches and is clicked: suggestionClicked = true; break;   *)
(* and the break of the outer loop                                         *)
ProbeClicked(r) ==
    /\ returned = NULL
    /\ r.pc = "probe"
    /\ inflight' = Resume(r,
            AfterProbe(r, <<Op("probe", r.selector, TRUE),
                            Op("click", r.selector, TRUE)>>, TRUE))
    /\ UNCHANGED <<SearchFrame, returned, calls>>

(* searchInput.press('Enter') resolved *)
EnterPressed(r) ==
    /\ returned = NULL
    /\ r.pc = "enter"
    /\ inflight' = Resume(r, [r EXCEPT !.pc = "resultWait",
                                       !.log = Logged(r, "enter", 0, TRUE)])
    /\ UNCHANGED <<SearchFrame, returned, calls>>

(* searchInput.press('Enter') rejected: the outer catch returns false *)
EnterThrows(r) ==
    /\ returned = NULL
    /\ r.pc = "enter"
    /\ SearchReturns(r, Logged(r, "enter", 0, FALSE), FALSE)
    /\ UNCHANGED <<SearchFrame, calls>>

(* page.waitForTimeout(3000) resolved; _waitForTrainData is awaited *)
ResultWaitOk(r) ==
    /\ returned = NULL
    /\ r.pc = "resultWait"
    /\ inflight' = Resume(r, [r EXCEPT !.pc = "waitForTrainData"])
    /\ UNCHANGED <<SearchFrame, returned, calls>>

(* the operations of _performStationSearch outside the loop whose          *)
(* rejection reaches the outer catch: return false.  waitFor rejects when  *)
(* no search input becomes visible within its timeout.                     *)
Throwing == {"waitFor", "type", "resultWait"}

SearchThrows(r) ==
    /\ returned = NULL
    /\ r.pc \in Throwing
    /\ SearchReturns(r, r.log, FALSE)
    /\ UNCHANGED <<SearchFrame, calls>>

(* await this._waitForTrainData(page) returned: true when one of its       *)
(* indicators became visible or the body text holds a time, false when     *)
(* none did or an operation of it rejected; _performStationSearch returns  *)
(* the same                                                                *)
_waitForTrainData(r, trainDataVisible) ==
    /\ returned = NULL
    /\ r.pc = "waitForTrainData"
    /\ SearchReturns(r, Logged(r, "observe", 0, trainDataVisible),
                     trainDataVisible)
    /\ UNCHANGED <<SearchFrame, calls>>

(* RushScraper._useSearchBar(page, stationName) called: the loop over      *)
(* searchSelectors looks for a visible input                               *)
_useSearchBar ==
    /\ returned = NULL
    /\ inflight = EmptyBag
    /\ calls < MaxCalls
    /\ calls' = calls + 1
    /\ inflight' = Suspend(Search("puppeteer", "searchSelectors"))
    /\ UNCHANGED <<SearchFrame, returned>>

(* the loop over searchSelectors ended: with no visible input              *)
(* _useSearchBar returns false, else it clicks, focuses, selects all and   *)
(* types                                                                   *)
SearchInput(r, found) ==
    /\ returned = NULL
    /\ r.pc = "searchSelectors"
    /\ IF found
       THEN /\ inflight' = Resume(r, [r EXCEPT !.pc = "legacyType"])
            /\ UNCHANGED returned
       ELSE SearchReturns(r, r.log, FALSE)
    /\ UNCHANGED <<SearchFrame, calls>>

(* click, focus, the keyboard calls, type and the 2 s timer resolved; the  *)
(* loop over resultSelectors is next                                       *)
LegacyTyped(r) ==
    /\ returned = NULL
    /\ r.pc = "legacyType"
    /\ inflight' = Resume(r, [r EXCEPT !.pc = "resultSelectors",
                                       !.log = Logged(r, "type", 0, TRUE)])
    /\ UNCHANGED <<SearchFrame, returned, calls>>

(* one of them rejected, or page.keyboard.press('Enter') did: the catch of *)
(* _useSearchBar returns false                                             *)
LegacyThrows(r) ==
    /\ returned = NULL
    /\ r.pc \in {"legacyType", "legacyEnter"}
    /\ SearchReturns(r, r.log, FALSE)
    /\ UNCHANGED <<SearchFrame, calls>>

(* the loop over resultSelectors ended, with a result clicked or with      *)
(* none: Enter is pressed when none was                                    *)
ResultSelectors(r, resultClicked) ==
    /\ returned = NULL
    /\ r.pc = "resultSelectors"
    /\ inflight' = Resume(r,
            IF resultClicked
            THEN [r EXCEPT !.pc = "legacyWait", !.suggestionClicked = TRUE,
                           !.log = Logged(r, "click", 0, TRUE)]
            ELSE [r EXCEPT !.pc = "legacyEnter"])
    /\ UNCHANGED <<SearchFrame, returned, calls>>

(* page.keyboard.press('Enter') resolved; the 5 s timer is awaited *)
LegacyEnterPressed(r) ==
    /\ returned = NULL
    /\ r.pc = "legacyEnter"
    /\ inflight' = Resume(r, [r EXCEPT !.pc = "legacyWait",
                                       !.log = Logged(r, "enter", 0, TRUE)])
    /\ UNCHANGED <<SearchFrame, returned, calls>>

(* the 5 s timer fired: return true, whatever the page shows *)
LegacyWaited(r) ==
    /\ returned = NULL
    /\ r.pc = "legacyWait"
    /\ SearchReturns(r, r.log, TRUE)
    /\ UNCHANGED <<SearchFrame, calls>>

NextSearch ==
    \/ PerformStationSearch
    \/ \E r \in InFlight : InputVisible(r)
    \/ \E r \in InFlight : Typed(r)
    \/ \E r \in InFlight : ProbeNoMatch(r)
    \/ \E r \in InFlight : ProbeThrows(r)
    \/ \E r \in InFlight : ProbeClickThrows(r)
    \/ \E r \in InFlight : ProbeClicked(r)
    \/ \E r \in InFlight : EnterPressed(r)
    \/ \E r \in InFlight : EnterThrows(r)
    \/ \E r \in InFlight : ResultWaitOk(r)
    \/ \E r \in InFlight : SearchThrows(r)
    \/ \E r \in InFlight, trainDataVisible \in BOOLEAN :
            _waitForTrainData(r, trainDataVisible)
    \/ _useSearchBar
    \/ \E r \in InFlight, found \in BOOLEAN : SearchInput(r, found)
    \/ \E r \in InFlight : LegacyTyped(r)
    \/ \E r \in InFlight : LegacyThrows(r)
    \/ \E r \in InFlight, resultClicked \in BOOLEAN :
            ResultSelectors(r, resultClicked)
    \/ \E r \in InFlight : LegacyEnterPressed(r)
    \/ \E r \in InFlight : LegacyWaited(r)
    \/ Deliver

SpecSearch == Init /\ [][NextSearch]_vars

-----------------------------------------------------------------------------
(* The travel-time estimate on its own: _simulateTrainData and             *)
(* _estimateTravelTime for every origin of up to MaxName characters, for   *)
(* the origin whose hash is -2^31, and for two destinations.               *)

NameChars == {"A", "b", "c", " ", "_"}

(* "GydZG_": 31-hash 0x80000000 *)
MinHashName == <<"G", "y", "d", "Z", "G", "_">>

Names == UNION { [1..n -> NameChars] : n \in 0..MaxName } \cup {MinHashName}

Destinations == { <<"c">>, <<"A", "b">> }

(* const stationCount = ...; const estimatedTravel = 3 * stationCount in   *)
(* _simulateTrainData, and _estimateTravelTime, for one origin             *)
EstimateTravel(origin, destination) ==
    /\ returned = NULL
    /\ returned' =
          [origin |-> origin,
           destination |-> destination,
           hash |-> _hashString(origin),
           stationCount |-> StationCount(origin),
           estimatedTravelTime |->
               _simulateTrainData(origin, destination, "MRT-3").estimatedTravelTime,
           estimate |-> _estimateTravelTime(origin, destination)]
    /\ UNCHANGED <<ConfigVars, now, cache, BrowserVars, contexts, pages,
                   inflight, CleanupVars, calls>>

NextTravel ==
    \/ \E origin \in Names, destination \in Destinations :
            EstimateTravel(origin, destination)
    \/ Deliver
    \/ Tick

SpecTravel == Init /\ [][NextTravel]_vars

-----------------------------------------------------------------------------
(* The default scraper asked for routes whose names hold the separator of  *)
(* the cache key: scrapeTrainSchedule takes any two strings.               *)

KeyOrigins == { <<"a">>, <<"A">>, <<"a", "_", "b">> }
KeyDestinations == { <<"c">>, <<"C">>, <<"b", "_", "c">> }

NextKeys ==
    \/ \E origin \in KeyOrigins, destination \in KeyDestinations :
            scrapeTrainSchedule(origin, destination, "MRT-3")
    \/ \E r \in InFlight : Respond(r)
    \/ Deliver
    \/ Tick

SpecKeys == InitDefault /\ [][NextKeys]_vars

-----------------------------------------------------------------------------
(* Shutdown: cleanup() is called once, at any moment, while calls are in   *)
(* flight, and no call is started after it.                                *)

NextShutdown ==
    \/ \E r \in Requests :
            cleanupPc = "idle" /\ scrapeTrainSchedule(r[1], r[2], r[3])
    \/ \E r \in InFlight : LaunchOk(r)
    \/ \E r \in InFlight : LaunchFail(r)
    \/ \E r \in InFlight : NewContextOk(r)
    \/ \E r \in InFlight : NewContextFail(r)
    \/ \E r \in InFlight : NewPageFail(r)
    \/ \E r \in InFlight, c \in PageContents : PageDone(r, c)
    \/ \E r \in InFlight : PageFail(r)
    \/ \E r \in InFlight : Respond(r)
    \/ cleanupPc = "idle" /\ CleanupStart
    \/ CleanupCloseOk
    \/ CleanupCloseFail
    \/ Deliver

SpecShutdown == InitPage /\ [][NextShutdown]_vars

-----------------------------------------------------------------------------
(* Restart: all calls but one are started, cleanup() is called once, at    *)
(* any moment after them, and the last call is started after cleanup()     *)
(* has resolved: it is the first call after cleanup() for its key.         *)

CleanupResolved == cleanupPc \in {"done", "doneCloseFailed"}

NextRestart ==
    \/ \E r \in Requests :
            /\ IF calls < MaxCalls - 1 THEN cleanupPc = "idle" ELSE CleanupResolved
            /\ scrapeTrainSchedule(r[1], r[2], r[3])
    \/ \E r \in InFlight : LaunchOk(r)
    \/ \E r \in InFlight : LaunchFail(r)
    \/ \E r \in InFlight : NewContextOk(r)
    \/ \E r \in InFlight : NewContextFail(r)
    \/ \E r \in InFlight : NewPageFail(r)
    \/ \E r \in InFlight, c \in PageContents : PageDone(r, c)
    \/ \E r \in InFlight : PageFail(r)
    \/ \E r \in InFlight : Respond(r)
    \/ cleanupPc = "idle" /\ calls = MaxCalls - 1 /\ CleanupStart
    \/ CleanupCloseOk
    \/ CleanupCloseFail
    \/ Deliver

SpecRestart == InitPage /\ [][NextRestart]_vars

-----------------------------------------------------------------------------
(* Session expiry (src/unnamed/part_004, lines 39 and 490-549).  Here a    *)
(* session carries its lastActivity, the clock moves, and every            *)
(* _getUserSession sweeps the sessions of all users first.  What           *)
(* handleMessage returns carries the session the message was handled from  *)
(* and the users the sweep deleted.                                        *)

sessionTimeout == 60 * 60 * 1000

SessionMessages == { "", "hi", "Ayala", "Cubao", "xyz" }

(* stretches of time without any message, in ticks of the clock: half an   *)
(* hour, an hour to the millisecond, an hour and a tick                    *)
Silences == { 12, 24, 25 }

TimedSession(session, lastActivity) ==
    [state |-> session.state, origin |-> session.origin,
     lastActivity |-> lastActivity]

SessionOf(timed) == Session(timed.state, timed.origin)

(* the comparison of _cleanupExpiredSessions, made inclusive *)
IsExpiredInclusive(session) == NowMs - session.lastActivity >= sessionTimeout

(* currentTime.getTime() - lastActivity.getTime() > this.sessionTimeout *)
IsExpired(session) == NowMs - session.lastActivity > sessionTimeout

expiredUsers == { u \in DOMAIN userSessions : IsExpired(userSessions[u]) }

(* this.userSessions after _cleanupExpiredSessions() *)
_cleanupExpiredSessions ==
    [u \in DOMAIN userSessions \ expiredUsers |-> userSessions[u]]

(* _getUserSession(userId) with its sweep: the sessions it leaves, the     *)
(* user's own made anew when the sweep left none, its lastActivity now     *)
SessionAccess(userId) ==
    LET swept == _cleanupExpiredSessions IN
    [u \in DOMAIN swept \cup {userId} |->
        IF u # userId THEN swept[u]
        ELSE IF u \in DOMAIN swept THEN TimedSession(swept[u], NowMs)
        ELSE TimedSession(NewSession, NowMs)]

(* the sessions after an access of userId that left the session `session` *)
Accessed(userId, session) ==
    [SessionAccess(userId) EXCEPT ![userId] = TimedSession(session, NowMs)]

TimedReply(userId, reply, from) ==
    [userId |-> userId, reply |-> reply, from |-> from, swept |-> expiredUsers]

(* handleMessage(userId, message) with the clock *)
TimedHandleMessage(userId, message) ==
    LET from == SessionOf(SessionAccess(userId)[userId])
        outcome == Dispatch(from, message) IN
    /\ returned = NULL
    /\ IF message = ""
       THEN /\ returned' = Reply(userId, "invalid_station")
            /\ UNCHANGED <<userSessions, inflight>>
       ELSE /\ userSessions' = Accessed(userId, outcome.session)
            /\ IF outcome.scrape = NULL
               THEN /\ returned' = TimedReply(userId, outcome.reply, from)
                    /\ UNCHANGED inflight
               ELSE /\ \A r \in InFlight : r.userId # userId
                    /\ inflight' = Suspend([pc |-> "scrapeTrainSchedule",
                                            userId |-> userId,
                                            call |-> outcome.scrape,
                                            from |-> from])
                    /\ UNCHANGED returned
    /\ UNCHANGED ConvFrame

(* scrapeTrainSchedule resolved: _setUserState(userId, COMPLETED) is a     *)
(* session access like any other                                           *)
TimedScheduleReturned(r) ==
    LET from == SessionOf(SessionAccess(r.userId)[r.userId]) IN
    /\ returned = NULL
    /\ r.pc = "scrapeTrainSchedule"
    /\ userSessions' = Accessed(r.userId,
            [from EXCEPT !.state = ConversationState.COMPLETED])
    /\ returned' = TimedReply(r.userId, "schedule", from)
    /\ inflight' = Finish(r)
    /\ UNCHANGED ConvFrame

(* getUserState(userId), which the bot calls after a reply was sent *)
getUserState(userId) ==
    LET from == SessionOf(SessionAccess(userId)[userId]) IN
    /\ returned = NULL
    /\ userSessions' = SessionAccess(userId)
    /\ returned' = TimedReply(userId, from.state, from)
    /\ UNCHANGED <<ConvFrame, inflight>>

(* the methods of class PlaywrightRushScraper, the scraper the handler     *)
(* makes in its constructor                                                *)
PlaywrightRushScraperMethods ==
    { "_isCacheValid", "_getCacheKey", "_initBrowser", "_closeBrowser",
      "_simulateTrainData", "_hashString", "scrapeTrainSchedule",
      "_attemptDataExtraction", "_selectTrainLine", "_performStationSearch",
      "_waitForTrainData", "_extractTrainDataFromPage",
      "_calculateMinutesFromTime", "_estimateTravelTime", "cleanup" }

(* what a call ends with: a value, or an error thrown *)
Value(op, value) == [op |-> op, threw |-> FALSE, value |-> value]
Thrown(op, error) == [op |-> op, threw |-> TRUE, value |-> error]

(* the object getStats() builds over the sessions the sweep left; calling  *)
(* a method the scraper does not have throws a TypeError                   *)
Stats(sessions) ==
    IF "getCacheInfo" \in PlaywrightRushScraperMethods
    THEN Value("getStats",
            [activeSessions |-> Cardinality(DOMAIN sessions),
             stateDistribution |->
                [state \in { sessions[u].state : u \in DOMAIN sessions } |->
                    Cardinality({ u \in DOMAIN sessions :
                                    sessions[u].state = state })],
             sessionTimeoutMinutes |-> sessionTimeout \div (60 * 1000),
             scraperCacheInfo |-> getCacheInfo])
    ELSE Thrown("getStats", "TypeError")

(* ConversationHandler.getStats() *)
getStats ==
    /\ returned = NULL
    /\ userSessions' = _cleanupExpiredSessions
    /\ returned' = Stats(_cleanupExpiredSessions)
    /\ UNCHANGED <<ConvFrame, inflight>>

(* GET /stats: getBotStats() calls getStats(); the route answers 500 when  *)
(* that throws                                                             *)
GetStats ==
    LET stats == Stats(_cleanupExpiredSessions) IN
    /\ returned = NULL
    /\ userSessions' = _cleanupExpiredSessions
    /\ returned' = IF stats.threw
                   THEN [op |-> "GET /stats", status |-> 500,
                         body |-> "Unable to get stats"]
                   ELSE [op |-> "GET /stats", status |-> 200,
                         body |-> stats.value]
    /\ UNCHANGED <<ConvFrame, inflight>>

(* no message arrives for `ticks` ticks of the clock *)
Elapse(ticks) ==
    /\ returned = NULL
    /\ (now + ticks) * TickMs <= 2 * sessionTimeout + 2 * TickMs
    /\ now' = now + ticks
    /\ UNCHANGED <<ConfigVars, cache, BrowserVars, ReqVars, CleanupVars>>

NextSessions ==
    \/ \E userId \in Users, message \in SessionMessages :
            TimedHandleMessage(userId, message)
    \/ \E r \in InFlight : TimedScheduleReturned(r)
    \/ \E userId \in Users : getUserState(userId)
    \/ getStats
    \/ GetStats
    \/ \E ticks \in Silences : Elapse(ticks)
    \/ Deliver

SpecSessions == InitConversation /\ [][NextSessions]_vars

-----------------------------------------------------------------------------
(* The line the conversation layer passes and the button _selectTrainLine  *)
(* picks for it (src/unnamed/part_004, lines 394-405;                      *)
(* src/src/scraper/playwright-rush-scraper.js, lines 311-351 and 894-937). *)
(* Line values are sequences of characters; "U+2192" is the arrow of the   *)
(* transfer label, one character.                                          *)

LineName(line) ==
    CASE line = "MRT-3" -> <<"M", "R", "T", "-", "3">>
      [] line = "LRT-1" -> <<"L", "R", "T", "-", "1">>
      [] line = "LRT-2" -> <<"L", "R", "T", "-", "2">>
      [] line = "PNR" -> <<"P", "N", "R">>
      [] line = "MRT" -> <<"M", "R", "T">>
      [] line = "LRT" -> <<"L", "R", "T">>

UpperChar(c) ==
    CASE c = "l" -> "L" [] c = "m" -> "M" [] c = "r" -> "R" [] c = "t" -> "T"
      [] c = "p" -> "P" [] c = "n" -> "N" [] OTHER -> c

toUpperCase(s) == [i \in 1..Len(s) |-> UpperChar(s[i])]

(* String.prototype.includes *)
includes(s, t) ==
    \E i \in 0..(Len(s) - Len(t)) : SubSeq(s, i + 1, i + Len(t)) = t

AllStations ==
    UNION { { getLineStations(line)[i] : i \in 1..Len(getLineStations(line)) } :
            line \in Lines }

(* getRouteInfo(origin, destination).line for a route getRouteInfo gives:  *)
(* the line, or the label `${originLine} -> ${destinationLine}` of a       *)
(* route with a transfer                                                   *)
RouteLine(origin, destination) ==
    LET originLine == findStationLine(origin)
        destinationLine == findStationLine(destination)
    IN  IF originLine = destinationLine THEN LineName(originLine)
        ELSE LineName(originLine) \o <<" ", "U+2192", " ">>
                 \o LineName(destinationLine)

(* the button text _selectTrainLine determines from `line` *)
buttonText(line) ==
    IF includes(toUpperCase(line), LineName("LRT-1")) THEN "LRT-1"
    ELSE IF includes(toUpperCase(line), LineName("MRT")) THEN "MRT-3"
    ELSE IF includes(toUpperCase(line), LineName("LRT-2")) THEN "LRT-2"
    ELSE IF includes(toUpperCase(line), LineName("PNR")) THEN "PNR"
    ELSE "LRT-1"

(* a destination accepted for the origin by _handleDestinationInput, and   *)
(* _selectTrainLine(page, line) with the line passed on for the route; the *)
(* button is clicked when it is visible                                    *)
SelectTrainLine(origin, destination, visible) ==
    /\ returned = NULL
    /\ origin # destination
    /\ getRouteInfo(origin, destination) # none
    /\ returned' = [origin |-> origin, destination |-> destination,
                    line |-> RouteLine(origin, destination),
                    buttonText |-> buttonText(RouteLine(origin, destination)),
                    selected |-> visible]
    /\ UNCHANGED <<ConfigVars, now, cache, BrowserVars, contexts, pages,
                   inflight, CleanupVars, calls>>

NextLine ==
    \/ \E origin \in AllStations, destination \in AllStations,
          visible \in BOOLEAN : SelectTrainLine(origin, destination, visible)
    \/ Deliver

SpecLine == InitConversation /\ [][NextLine]_vars

-----------------------------------------------------------------------------
(* Properties *)

IsSequence(s) == DOMAIN s = 1..Len(s)

(* the steps a call can take while _attemptDataExtraction waits on the      *)
(* browser; once it has returned, only Respond is left                      *)
Continue(r) ==
    \/ LaunchFail(r) \/ LaunchOk(r)
    \/ NewContextFail(r) \/ NewPageFail(r) \/ NewContextOk(r)
    \/ PageFail(r) \/ (\E c \in PageContents : PageDone(r, c))

(* C1: scrapeTrainSchedule never rejects, whatever fails underneath (the    *)
(* launch, the context, the page): what it hands to its caller is a record  *)
(* with a nextTrains array and a non-negative integer estimatedTravelTime,  *)
(* and a call waiting on the browser always has a next step.                *)
C1_AlwaysResolves ==
    /\ returned # NULL =>
          /\ returned.how \in {"cache", "live", "simulated"}
          /\ returned.data # NULL
          /\ IsSequence(returned.data.nextTrains)
          /\ returned.data.estimatedTravelTime \in Nat
    /\ returned = NULL =>
          \A r \in InFlight : r.pc = "respond" \/ ENABLED Continue(r)

(* a call whose browser launch was rejected has returned a record *)
C1_Witness ==
    /\ returned # NULL
    /\ returned.how = "simulated"
    /\ useBrowserScraper
    /\ launched = 0
    /\ calls = 1

(* C2: while fewer than cacheDuration * 1000 ms have passed since an entry  *)
(* was stored, a call whose pair maps to the entry's key returns the stored *)
(* record itself, starts no extraction and leaves the cache as it is; once  *)
(* that much time has passed, getCacheInfo reports the entry with           *)
(* valid = false and the call is a miss (a new request is started).         *)
C2_Call(q) ==
    LET cacheKey == _getCacheKey(q[1], q[2]) IN
    (scrapeTrainSchedule(q[1], q[2], q[3]) /\ cacheKey \in DOMAIN cache) =>
        IF NowMs - cache[cacheKey].timestamp < cacheDuration * 1000
        THEN /\ returned' # NULL
             /\ returned'.how = "cache"
             /\ returned'.data = cache[cacheKey].data
             /\ inflight' = inflight
             /\ cache' = cache
             /\ \A e \in getCacheInfo.entries : e.key = cacheKey => e.valid
        ELSE /\ returned' = NULL
             /\ BagCardinality(inflight') = BagCardinality(inflight) + 1
             /\ \A e \in getCacheInfo.entries : e.key = cacheKey => ~e.valid

C2_CacheTTL == [][\A q \in Requests : C2_Call(q)]_vars

(* a record is served from the cache some time after it was stored *)
C2_Witness ==
    /\ returned # NULL
    /\ returned.how = "cache"
    /\ \E k \in DOMAIN cache :
          /\ cache[k].data = returned.data
          /\ NowMs > cache[k].timestamp

(* C3: a record returned by scrapeTrainSchedule, and a record kept in the   *)
(* cache, has simulated = true exactly when no live extraction succeeded in *)
(* the request that produced it; a live record names its source.            *)
C3_SimulatedFlag ==
    /\ returned # NULL =>
          /\ returned.data.simulated = ~returned.live
          /\ returned.live => returned.data.source = "playwright-extraction"
    /\ \A k \in DOMAIN cache : cache[k].data.simulated = ~cache[k].live

(* a live record is served again from the cache *)
C3_Witness ==
    /\ returned # NULL
    /\ returned.how = "cache"
    /\ returned.live
    /\ ~returned.data.simulated

(* C4: with the live-browser toggle off no browser is ever launched (the    *)
(* browser reference stays null, no call waits on a browser, a context or   *)
(* a page) and every record returned or cached has simulated = true.        *)
C4_ToggleOff ==
    ~useBrowserScraper =>
        /\ browser = 0
        /\ launched = 0
        /\ openBrowsers = {}
        /\ contexts = 0
        /\ pages = 0
        /\ \A r \in InFlight : r.pc = "respond" /\ r.browser = 0
        /\ returned # NULL => returned.data.simulated
        /\ \A k \in DOMAIN cache : cache[k].data.simulated

(* toggle off: a call was answered from the cache *)
C4_Witness ==
    /\ ~useBrowserScraper
    /\ returned # NULL
    /\ returned.how = "cache"
    /\ returned.data.simulated

(* C5: with live extraction disabled, a call that misses the cache (an      *)
(* empty cache in particular) returns a record with the line, origin and    *)
(* destination of the call, simulated = true and exactly 5 nextTrains,      *)
(* 3, 8, 15, 23 and 33 minutes away, the first three On Time and the last   *)
(* two, more than 20 minutes away, Delayed.                                 *)
C5_SimulatedRecord ==
    (~useBrowserScraper /\ returned # NULL /\ returned.how # "cache") =>
        LET data == returned.data IN
        /\ data.line = returned.call.line
        /\ data.origin = returned.call.origin
        /\ data.destination = returned.call.destination
        /\ data.simulated = TRUE
        /\ Len(data.nextTrains) = 5
        /\ [i \in 1..5 |-> data.nextTrains[i].minutesAway] = <<3, 8, 15, 23, 33>>
        /\ \A i \in 1..5 :
              data.nextTrains[i].status =
                  IF data.nextTrains[i].minutesAway > 20 THEN "Delayed"
                  ELSE "On Time"

(* the first call on a new scraper has returned *)
C5_Witness ==
    /\ ~useBrowserScraper
    /\ returned # NULL
    /\ returned.how = "simulated"
    /\ calls = 1
    /\ cleanupPc = "idle"

SameIgnoringCase(s, t) ==
    /\ Len(s) = Len(t)
    /\ \A i \in 1..Len(s) : LowerChar(s[i]) = LowerChar(t[i])

Fresh(k) == NowMs - cache[k].timestamp < cacheDuration * 1000

SameNormalized(s, t) == SameIgnoringCase(Trim(s), Trim(t))

(* C7, as stated: a call whose pair differs only in letter case or in       *)
(* leading or trailing blanks from the pair of an entry stored less than    *)
(* cacheDuration seconds ago is answered from the cache.                    *)
C7_CallTrimmed(q) ==
    (/\ scrapeTrainSchedule(q[1], q[2], q[3])
     /\ \E k \in DOMAIN cache :
           /\ Fresh(k)
           /\ SameNormalized(cache[k].data.origin, q[1])
           /\ SameNormalized(cache[k].data.destination, q[2]))
    => (returned' # NULL /\ returned'.how = "cache")

C7_KeyTrimmed == [][\A q \in DefaultRequests : C7_CallTrimmed(q)]_vars

(* C7, amended: the key is case-insensitive and not trimmed.  A call is     *)
(* answered from the cache exactly when an entry stored less than           *)
(* cacheDuration seconds ago has a pair equal to the call's up to letter    *)
(* case, and then with that entry's record; a pair that differs from every  *)
(* such entry in its blanks is a miss.                                      *)
C7_Call(q) ==
    scrapeTrainSchedule(q[1], q[2], q[3]) =>
        LET same == { k \in DOMAIN cache :
                        /\ Fresh(k)
                        /\ SameIgnoringCase(cache[k].data.origin, q[1])
                        /\ SameIgnoringCase(cache[k].data.destination, q[2]) }
        IN  IF same # {}
            THEN /\ returned' # NULL
                 /\ returned'.how = "cache"
                 /\ \E k \in same : returned'.data = cache[k].data
            ELSE /\ returned' = NULL
                 /\ BagCardinality(inflight') = BagCardinality(inflight) + 1

C7_KeyCaseInsensitive == [][\A q \in DefaultRequests : C7_Call(q)]_vars

(* two calls whose pairs differ only in blanks have each stored an entry   *)
(* of their own, both less than cacheDuration seconds old                   *)
C7_Witness ==
    /\ calls = 2
    /\ \E k1, k2 \in DOMAIN cache :
          /\ Fresh(k1)
          /\ Fresh(k2)
          /\ k1 # k2
          /\ SameNormalized(cache[k1].data.origin, cache[k2].data.origin)
          /\ SameNormalized(cache[k1].data.destination, cache[k2].data.destination)

(* C8, as stated: at most one browser is open at a time, and the calls      *)
(* under way that _initBrowser has handed a browser all hold the same one.  *)
(* Stated for a scraper on which cleanup() has not been called.             *)
C8_SingleBrowser ==
    cleanupPc = "idle" =>
        /\ Cardinality(openBrowsers) <= 1
        /\ \A r1, r2 \in InFlight :
              (r1.browser # 0 /\ r2.browser # 0) => r1.browser = r2.browser

C10_Step ==
    /\ cleanupPc' \in {"idle", "closing", "done", "doneCloseFailed"}
    /\ (CleanupCloseOk \/ CleanupCloseFail \/ (CleanupStart /\ browser = 0)) =>
          /\ cleanupPc' \in {"done", "doneCloseFailed"}
          /\ browser' = 0
    /\ (/\ CleanupStart
        /\ cleanupPc \in {"done", "doneCloseFailed"}
        /\ browser = 0
        /\ cache = <<>>) =>
          UNCHANGED <<useBrowserScraper, now, cache, browser, launched,
                      openBrowsers, contexts, pages, inflight, returned,
                      closing, calls>>
    /\ \A q \in Requests :
          (/\ scrapeTrainSchedule(q[1], q[2], q[3])
           /\ useBrowserScraper
           /\ browser = 0
           /\ returned' = NULL) =>
              \E r \in BagToSet(inflight') :
                  /\ r.pc = "launch"
                  /\ r.call = [origin |-> q[1], destination |-> q[2],
                               line |-> q[3]]
                  /\ CopiesIn(r, inflight') = CopiesIn(r, inflight) + 1

C10_CleanupSafe == [][C10_Step]_vars

(* cleanup() has completed although browser.close() rejected: the          *)
(* reference is null and the browser it held is still open                  *)
C10_Witness ==
    /\ cleanupPc = "doneCloseFailed"
    /\ browser = 0
    /\ launched = 1
    /\ openBrowsers = {1}

(* the call of r has left _attemptDataExtraction through its catch, before  *)
(* it had a browser                                                         *)
LaunchRejected(r) ==
    /\ useBrowserScraper
    /\ r.pc = "respond"
    /\ r.browser = 0
    /\ r.response = NULL

C11_Step ==
    \A r \in InFlight :
        /\ LaunchFail(r) =>
              /\ returned' = NULL
              /\ \E n \in BagToSet(inflight') :
                    /\ n.call = r.call
                    /\ LaunchRejected(n)
                    /\ CopiesIn(n, inflight') = CopiesIn(n, inflight) + 1
        /\ (Respond(r) /\ LaunchRejected(r)) =>
              /\ returned' # NULL
              /\ returned'.how = "simulated"
              /\ returned'.call = r.call
              /\ returned'.data.simulated
              /\ returned'.data.origin = r.call.origin
              /\ returned'.data.line = r.call.line
              /\ cache'[_getCacheKey(r.call.origin, r.call.destination)].data
                     = returned'.data

C12_Step ==
    /\ \A r \in InFlight :
          LaunchFail(r) =>
              /\ browser' = 0
              /\ \A n \in BagToSet(inflight') :
                    (n.call = r.call /\ CopiesIn(n, inflight') > CopiesIn(n, inflight))
                        => (n.browser = 0 /\ n.pc = "respond")
    /\ \A q \in Requests :
          (/\ scrapeTrainSchedule(q[1], q[2], q[3])
           /\ useBrowserScraper
           /\ browser = 0
           /\ returned' = NULL) =>
              BagCardinality(inflight') =
                  BagCardinality(inflight) + 1
              /\ \A n \in BagToSet(inflight') :
                    CopiesIn(n, inflight') > CopiesIn(n, inflight) => n.pc = "launch"

C12_LaunchFailureLeavesNull == [][C12_Step]_vars

(* after a rejected launch has been answered with a simulated record, a     *)
(* call is launching a browser and none was launched so far                 *)
C12_Witness ==
    /\ useBrowserScraper
    /\ launched = 0
    /\ browser = 0
    /\ cache # <<>>
    /\ \E r \in InFlight : r.pc = "launch"

Strategies == <<"dom", "preloaded", "network">>

StrategyIndex(strategy) == CHOOSE i \in 1..3 : Strategies[i] = strategy

(* the train times a strategy returns: none when it throws *)
Yield(page, strategy) ==
    IF strategy \in page.throws THEN 0
    ELSE IF strategy = "dom" THEN page.dom
    ELSE IF strategy = "preloaded" THEN page.preloaded ELSE page.network

(* the strategies in invoked were run in the fixed order, each at most     *)
(* once, and none was run after one that found a train time                *)
ShortCircuit(page, invoked) ==
    /\ \A i \in 1..Len(invoked) : invoked[i] \in {"dom", "preloaded", "network"}
    /\ \A i, j \in 1..Len(invoked) :
          i < j => StrategyIndex(invoked[i]) < StrategyIndex(invoked[j])
    /\ \A i \in 1..Len(invoked) :
          Yield(page, invoked[i]) > 0 => i = Len(invoked)

(* C13: the strategies run in the order DOM mining, preloaded data,        *)
(* network interception and the chain returns the first result that is not *)
(* null: no strategy is invoked after one that found a train time, and     *)
(* null is returned only after the preloaded data and the network were     *)
(* both tried and found nothing.                                           *)
C13_ShortCircuit ==
    /\ \A r \in InFlight : ShortCircuit(r.page, r.invoked)
    /\ \A r \in InFlight :
          \A i \in 1..Len(r.invoked) : Yield(r.page, r.invoked[i]) = 0
    /\ returned # NULL =>
          /\ Len(returned.invoked) > 0
          /\ IF returned.result # NULL
             THEN /\ returned.result.source = returned.invoked[Len(returned.invoked)]
                  /\ returned.result.entries > 0
                  /\ \A i \in 1..(Len(returned.invoked) - 1) :
                        returned.invoked[i] # returned.result.source
             ELSE /\ returned.invoked[Len(returned.invoked)] = "network"
                  /\ \E i \in 1..Len(returned.invoked) :
                        returned.invoked[i] = "preloaded"
          /\ \A i, j \in 1..Len(returned.invoked) :
                i < j => StrategyIndex(returned.invoked[i])
                            < StrategyIndex(returned.invoked[j])
          /\ (returned.result # NULL /\ returned.result.source = "dom") =>
                returned.invoked = <<"dom">>

(* DOM mining found train times and the chain has returned its record,     *)
(* with no other strategy invoked                                          *)
C13_Witness ==
    /\ returned # NULL
    /\ returned.result # NULL
    /\ returned.result.source = "dom"
    /\ returned.invoked = <<"dom">>

Range(seq) == { seq[i] : i \in 1..Len(seq) }

TimesOf(nextTrains) == { nextTrains[i].time : i \in 1..Len(nextTrains) }

(* the time strings of a page whose hours are 0..23 and minutes 0..59 *)
InRange(matches) ==
    { mt.time : mt \in { x \in Range(matches) :
                           /\ x.time.h \in 0..23
                           /\ x.time.m \in 0..59 } }

(* C14: DOM mining accepts a token h:mm or h.mm exactly when 0 <= h <= 23  *)
(* and 0 <= mm <= 59: the times of the extracted record are the in-range   *)
(* tokens of the page, "23:59" and "0:00" among them when they are on the  *)
(* page, never "24:00" or "12:60"; a page with no in-range token yields no *)
(* record.                                                                 *)
C14_TimeValidation ==
    returned # NULL =>
        IF returned.data = NULL
        THEN InRange(returned.matches) = {}
        ELSE /\ TimesOf(returned.data.nextTrains) = InRange(returned.matches)
             /\ T(24, 0, ":") \notin TimesOf(returned.data.nextTrains)
             /\ T(12, 60, ":") \notin TimesOf(returned.data.nextTrains)
             /\ \A t \in {T(23, 59, ":"), T(0, 0, ":")} :
                   (\E i \in 1..Len(returned.matches) : returned.matches[i].time = t)
                       => t \in TimesOf(returned.data.nextTrains)

(* a page with "24:00", "23:59" and "0:00" has been mined: two times kept *)
C14_Witness ==
    /\ returned # NULL
    /\ returned.data # NULL
    /\ { returned.matches[i].time : i \in 1..Len(returned.matches) }
           = { T(24, 0, ":"), T(23, 59, ":"), T(0, 0, ":") }
    /\ TimesOf(returned.data.nextTrains) = { T(23, 59, ":"), T(0, 0, ":") }

(* C15, as stated: the minutesAway of every train of an extracted record   *)
(* is a non-negative integer, for tokens h:mm and h.mm alike and at every  *)
(* time of the clock.                                                      *)
C15_MinutesAwayNonNegative ==
    (returned # NULL /\ returned.data # NULL) =>
        \A i \in 1..Len(returned.data.nextTrains) :
            returned.data.nextTrains[i].minutesAway \in Nat

(* C16: the nextTrains of an extracted record hold each distinct literal   *)
(* time string once: no two entries have the same time, however often the  *)
(* token was matched, and every in-range literal of the page has its       *)
(* entry ("08:05" and "8:05" are two literals).                            *)
C16_DistinctTimes ==
    (returned # NULL /\ returned.data # NULL) =>
        LET nextTrains == returned.data.nextTrains IN
        /\ \A i, j \in 1..Len(nextTrains) :
              i # j => nextTrains[i].time # nextTrains[j].time
        /\ Len(nextTrains) = Cardinality(InRange(returned.matches))

(* "08:05", "08:05" (of "08:05 AM") and "07:59" were matched: two entries *)
C16_Witness ==
    /\ returned # NULL
    /\ returned.data # NULL
    /\ returned.matches = << M(T0(8, 5, ":"), 0, "On Time"),
                             M(T0(8, 5, ":"), 0, "On Time"),
                             M(T0(7, 59, ":"), 4, "Delayed") >>
    /\ Len(returned.data.nextTrains) = 2

(* C17, as stated, for extracted records whose minutesAway are all         *)
(* numbers: minutesAway does not decrease along nextTrains.                *)
C17_Chronological ==
    (/\ returned # NULL
     /\ returned.data # NULL
     /\ \A i \in 1..Len(returned.data.nextTrains) :
           returned.data.nextTrains[i].minutesAway # NaN) =>
        \A i, j \in 1..Len(returned.data.nextTrains) :
            i < j => returned.data.nextTrains[i].minutesAway
                        <= returned.data.nextTrains[j].minutesAway

(* what the claim compares of a simulated record *)
SimulatedShape(data) ==
    [trains |-> Len(data.nextTrains),
     minutesAway |-> [i \in 1..Len(data.nextTrains) |-> data.nextTrains[i].minutesAway],
     estimatedTravelTime |-> data.estimatedTravelTime]

SimulatedRecords ==
    { cache[k].data : k \in { x \in DOMAIN cache : cache[x].data.simulated } }
        \cup (IF returned # NULL /\ returned.data.simulated
               THEN {returned.data} ELSE {})

(* C18: the simulation is deterministic in its arguments.  Every simulated  *)
(* record there is, returned or cached, whenever and in whatever state of   *)
(* the cache and the browser it was made, has the number of trains, the     *)
(* minutesAway and the estimatedTravelTime that _simulateTrainData gives    *)
(* for the same origin, destination and line in the present state; so any   *)
(* two runs on the same arguments agree on them.                            *)
C18_SimulationDeterministic ==
    /\ \A d \in SimulatedRecords :
          SimulatedShape(d) =
              SimulatedShape(_simulateTrainData(d.origin, d.destination, d.line))
    /\ \A d1, d2 \in SimulatedRecords :
          (/\ d1.origin = d2.origin
           /\ d1.destination = d2.destination
           /\ d1.line = d2.line) => SimulatedShape(d1) = SimulatedShape(d2)

(* a simulated record made earlier, with no browser, is in the cache while  *)
(* a browser is open and the clock has moved on                             *)
C18_Witness ==
    /\ browser # 0
    /\ \E k \in DOMAIN cache :
          /\ cache[k].data.simulated
          /\ cache[k].timestamp < NowMs

(* C19: a simulated fallback record is cached like a live one.  The         *)
(* fallback stores its record under the key of the call with the present    *)
(* time; a call whose key has a simulated entry stored less than            *)
(* cacheDuration seconds ago returns that record and starts nothing (no     *)
(* request, no launch, no context, no page); with live extraction enabled   *)
(* a call whose key has no entry, or an expired one, starts browser work.   *)
C19_Step ==
    /\ \A r \in InFlight :
          (Respond(r) /\ r.response = NULL) =>
              LET k == _getCacheKey(r.call.origin, r.call.destination) IN
              /\ k \in DOMAIN cache'
              /\ cache'[k].data = returned'.data
              /\ cache'[k].data.simulated
              /\ cache'[k].timestamp = NowMs
    /\ \A q \in Requests :
          scrapeTrainSchedule(q[1], q[2], q[3]) =>
              LET k == _getCacheKey(q[1], q[2]) IN
              IF k \in DOMAIN cache /\ Fresh(k)
              THEN cache[k].data.simulated =>
                      /\ returned' # NULL
                      /\ returned'.data = cache[k].data
                      /\ UNCHANGED <<inflight, browser, launched, openBrowsers,
                                     contexts, pages, cache>>
              ELSE useBrowserScraper =>
                      \E n \in BagToSet(inflight') :
                          /\ n.pc \in {"launch", "newContext"}
                          /\ CopiesIn(n, inflight') = CopiesIn(n, inflight) + 1

C19_FallbackCached == [][C19_Step]_vars

(* with live extraction enabled, a call was answered from the cache with a  *)
(* simulated record                                                         *)
C19_Witness ==
    /\ useBrowserScraper
    /\ returned # NULL
    /\ returned.how = "cache"
    /\ returned.data.simulated

(* C20: calls for one key are not serialized.  A call that misses the       *)
(* cache starts its own request also when a request for the same key is     *)
(* under way, and every request that completes writes the cache: the entry  *)
(* of its key is then its record, stamped with the present time, whatever   *)
(* was there, so that after two such calls the entry is the record of the   *)
(* one that completed last.                                                 *)
C20_Step ==
    /\ \A q \in Requests :
          (scrapeTrainSchedule(q[1], q[2], q[3]) /\ returned' = NULL) =>
              BagCardinality(inflight') = BagCardinality(inflight) + 1
    /\ \A r \in InFlight :
          Respond(r) =>
              LET k == _getCacheKey(r.call.origin, r.call.destination) IN
              /\ returned' # NULL
              /\ returned'.call = r.call
              /\ cache'[k] = [data |-> returned'.data, timestamp |-> NowMs,
                              live |-> returned'.live]
              /\ \A x \in DOMAIN cache' \ {k} :
                    x \in DOMAIN cache /\ cache'[x] = cache[x]

C20_LastWriterWins == [][C20_Step]_vars

(* two calls for one key both missed the cache while it was empty and both  *)
(* have completed: the entry is the record of the second to complete        *)
C20_Witness ==
    /\ calls = 2
    /\ now = 0
    /\ cleanupPc = "idle"
    /\ inflight = EmptyBag
    /\ returned # NULL
    /\ returned.how # "cache"
    /\ Cardinality(DOMAIN cache) = 1
    /\ cache[_getCacheKey(returned.call.origin, returned.call.destination)].data
           = returned.data

NoOuterWhitespace(s) ==
    s # <<>> => ~IsWhitespace(s[1]) /\ ~IsWhitespace(s[Len(s)])

NoSpaceRun(s) ==
    \A i \in 1..(Len(s) - 1) : ~(s[i] = " " /\ s[i + 1] = " ")

(* C23: for every text, what cleanUserInput returns has no white space at   *)
(* either end and no two blanks in a row, also when the text holds          *)
(* characters that are stripped, and cleaning it again changes nothing.     *)
C23_CleanIdempotent ==
    returned # NULL =>
        /\ NoOuterWhitespace(returned.cleaned)
        /\ NoSpaceRun(returned.cleaned)
        /\ cleanUserInput(returned.cleaned) = returned.cleaned

Verifies(request) ==
    /\ request.signature # NULL
    /\ request.signature = Signature("sha256=", HexDigest(request.payload))

(* C22: POST /webhook hands a request to processMessage only when its       *)
(* signature header verifies, and every request whose header is missing,    *)
(* malformed or wrong, of whatever length, is answered 401 with nothing     *)
(* processed.                                                               *)
C22_InvalidSignatureUnauthorized ==
    /\ \A r \in InFlight : Verifies(r.request)
    /\ returned # NULL =>
          /\ returned.processed => Verifies(returned.request)
          /\ ~Verifies(returned.request) =>
                returned.status = 401 /\ ~returned.processed

(* C21: the three-step flow, for each user.  From INITIAL a greeting moves  *)
(* the session to WAITING_FOR_ORIGIN; in WAITING_FOR_ORIGIN a valid station *)
(* moves it to WAITING_FOR_DESTINATION with the station stored as origin;   *)
(* in WAITING_FOR_DESTINATION a valid station other than the origin and     *)
(* with a route to it makes the handler ask the scraper for that route, and *)
(* the scraper's return gives the schedule reply and moves the session to   *)
(* COMPLETED; a message in COMPLETED leaves the session and gets the reply  *)
(* that the same message would in INITIAL.                                  *)
C21_Step ==
    /\ \A userId \in Users, message \in Messages \ {""} :
          (/\ returned = NULL
           /\ returned' # NULL => returned'.userId = userId
           /\ handleMessage(userId, message)) =>
             LET session == _getUserSession(userId)
                 State == ConversationState
                 station == validateStation(message)
                 initial == _handleInitialState(
                                [session EXCEPT !.state = State.INITIAL], message)
             IN
             /\ (session.state = State.INITIAL /\ isGreeting(message)) =>
                   userSessions'[userId].state = State.WAITING_FOR_ORIGIN
             /\ (session.state = State.WAITING_FOR_ORIGIN /\ station # none) =>
                   /\ userSessions'[userId].state = State.WAITING_FOR_DESTINATION
                   /\ userSessions'[userId].origin = station
             /\ (/\ session.state = State.WAITING_FOR_DESTINATION
                 /\ station # none
                 /\ Lower(station) # Lower(session.origin)
                 /\ getRouteInfo(session.origin, station) # none) =>
                   /\ returned' = NULL
                   /\ \E r \in BagToSet(inflight') :
                         /\ r \notin InFlight
                         /\ r.userId = userId
                         /\ r.call.origin = session.origin
                         /\ r.call.destination = station
             /\ session.state = State.COMPLETED =>
                   /\ userSessions'[userId] = initial.session
                   /\ returned' = Reply(userId, initial.reply)
    /\ \A r \in InFlight :
          (r.pc = "scrapeTrainSchedule" /\ ScheduleReturned(r)) =>
             /\ returned' = Reply(r.userId, "schedule")
             /\ userSessions'[r.userId].state = ConversationState.COMPLETED

C21_ConversationFlow == [][C21_Step]_vars

(* a user has been given a schedule and sent a greeting after it: the      *)
(* session, with the origin of the completed query still in it, waits for  *)
(* an origin again                                                         *)
C21_Witness ==
    \E userId \in DOMAIN userSessions :
        /\ returned = Reply(userId, _getOriginSelectionOptions)
        /\ userSessions[userId].state = ConversationState.WAITING_FOR_ORIGIN
        /\ userSessions[userId].origin # none

(* C24: what is thrown inside a strategy is caught there and counts as an   *)
(* empty result.  A strategy that throws returns null: the chain does not   *)
(* end with it unless it is the last one, the strategy after it in the      *)
(* order is invoked next, and when station selection throws the chain goes  *)
(* on with the preloaded data; the chain itself returns a record or null,   *)
(* and a record only from a strategy that did not throw.                    *)
C24_Run(page, invoked) ==
    \A i \in 1..Len(invoked) :
        (invoked[i] \in page.throws /\ invoked[i] # "network") =>
            /\ i < Len(invoked)
            /\ invoked[i + 1] = Strategies[StrategyIndex(invoked[i]) + 1]

C24_ExceptionsContained ==
    /\ \A r \in InFlight :
          /\ \A i \in 1..Len(r.invoked) :
                (r.invoked[i] \in r.page.throws /\ i < Len(r.invoked)) =>
                    r.invoked[i + 1] = Strategies[StrategyIndex(r.invoked[i]) + 1]
          /\ (r.invoked # <<>> /\ r.invoked[Len(r.invoked)] \in r.page.throws) =>
                r.pc = Strategies[StrategyIndex(r.invoked[Len(r.invoked)]) + 1]
          /\ ("selection" \in r.page.throws /\ r.pc # "selection") =>
                \/ r.pc = "preloaded" /\ r.invoked = <<>>
                \/ r.invoked # <<>> /\ r.invoked[1] = "preloaded"
    /\ returned # NULL =>
          /\ C24_Run(returned.page, returned.invoked)
          /\ "selection" \in returned.page.throws =>
                returned.invoked[1] = "preloaded"
          /\ returned.result # NULL =>
                returned.result.source \notin returned.page.throws

(* the preloaded data threw, the network interception ran after it and     *)
(* found train times, which the chain returned                             *)
C24_Witness ==
    /\ returned # NULL
    /\ "preloaded" \in returned.page.throws
    /\ returned.page.preloaded > 0
    /\ returned.result # NULL
    /\ returned.result.source = "network"

(* a step of cleanup() *)
CleanupStep == CleanupStart \/ CleanupCloseOk \/ CleanupCloseFail

(* C25: cache expiry is lazy.  No step other than those of cleanup()        *)
(* removes a cache entry, so the number of entries never goes down          *)
(* otherwise: a call that finds an entry for its key that is no longer      *)
(* valid (now - timestamp >= cacheDuration) is a miss that leaves the entry *)
(* where it is, and the write that ends the request replaces it with an     *)
(* entry stamped with the present time.                                     *)
C25_Step ==
    /\ ~CleanupStep =>
          /\ DOMAIN cache \subseteq DOMAIN cache'
          /\ Cardinality(DOMAIN cache') >= Cardinality(DOMAIN cache)
    /\ \A q \in Requests :
          LET k == _getCacheKey(q[1], q[2]) IN
          (/\ k \in DOMAIN cache
           /\ ~(NowMs - cache[k].timestamp < cacheDuration * 1000)
           /\ scrapeTrainSchedule(q[1], q[2], q[3])) =>
              /\ returned' = NULL
              /\ cache' = cache
              /\ BagCardinality(inflight') = BagCardinality(inflight) + 1
    /\ \A r \in InFlight :
          (r.pc = "respond" /\ Respond(r)) =>
              LET k == _getCacheKey(r.call.origin, r.call.destination) IN
              /\ DOMAIN cache' = DOMAIN cache \cup {k}
              /\ cache'[k].timestamp = NowMs
              /\ NowMs - cache'[k].timestamp < cacheDuration * 1000

C25_LazyExpiry == [][C25_Step]_vars

(* an entry that has expired is still in the cache while the request that  *)
(* found it expired is under way                                           *)
C25_Witness ==
    \E k \in DOMAIN cache :
        /\ ~_isCacheValid(cache[k].timestamp)
        /\ \E r \in InFlight :
              _getCacheKey(r.call.origin, r.call.destination) = k

-----------------------------------------------------------------------------
(* the operations of one kind in the log of a call *)
Ops(r, op) == { i \in 1..Len(r.log) : r.log[i].op = op }

GotoFailed(r) == \E i \in Ops(r, "goto") : ~r.log[i].ok

(* C27: Navigation is attempted at most once per request: when page.goto   *)
(* fails or times out the attempt ends without a second navigation, no     *)
(* search and no extraction runs for that request, and the request returns *)
(* the simulated record.                                                   *)
C27_State ==
    \A r \in InFlight :
        /\ Cardinality(Ops(r, "goto")) <= 1
        /\ GotoFailed(r) =>
              /\ r.pc \in {"page.close", "context.close", "respond"}
              /\ Ops(r, "search") = {}
              /\ Ops(r, "extract") = {}
              /\ r.response = NULL

C27_Step ==
    /\ C27_State
    /\ C27_State'
    /\ \A r \in InFlight :
          GotoFailed(r) /\ inflight' = Finish(r) =>
              /\ returned' # NULL
              /\ returned'.call = r.call
              /\ returned'.how = "simulated"
              /\ returned'.data = _simulateTrainData(r.call.origin,
                                      r.call.destination, r.call.line)

C27_NavigationOnce == [][C27_Step]_vars

C27_Witness ==
    \E r \in InFlight : r.pc = "respond" /\ GotoFailed(r)

-----------------------------------------------------------------------------
(* the call has left _attemptDataExtraction *)
AttemptReturned(r) == r.pc = "respond"

ClosedOnce(r, op, target) ==
    /\ Cardinality(Ops(r, op)) = 1
    /\ \A i \in Ops(r, op) : r.log[i].target = target

(* C30: Every page and browsing context created by _attemptDataExtraction  *)
(* is closed (page first, then context) before the call returns, on every  *)
(* exit path; an error while closing one of them does not prevent closing  *)
(* the other nor change the call's result.                                 *)
C30_ClosedOnEveryPath ==
    \A r \in InFlight :
        AttemptReturned(r) =>
            /\ IF r.page # 0 THEN ClosedOnce(r, "page.close", r.page)
                             ELSE Ops(r, "page.close") = {}
            /\ IF r.context # 0 THEN ClosedOnce(r, "context.close", r.context)
                                ELSE Ops(r, "context.close") = {}
            /\ \A i \in Ops(r, "page.close"), j \in Ops(r, "context.close") : i < j
            /\ r.context # 0 =>
                  /\ Cardinality(Ops(r, "return")) = 1
                  /\ \A i \in Ops(r, "return") :
                        /\ r.log[i].target = r.response
                        /\ \A j \in Ops(r, "page.close") \cup Ops(r, "context.close") :
                              i < j

(* a live record returned although page.close() failed *)
C30_Witness ==
    \E r \in InFlight :
        /\ AttemptReturned(r)
        /\ r.response # NULL
        /\ \E i \in Ops(r, "page.close") : ~r.log[i].ok
        /\ \E j \in Ops(r, "context.close") : r.log[j].ok

-----------------------------------------------------------------------------
LiveCall ==
    [origin |-> LiveRequest[1], destination |-> LiveRequest[2],
     line |-> LiveRequest[3]]

Pending == \E r \in InFlight : r.call = LiveCall

Completed ==
    /\ returned # NULL
    /\ returned.call = LiveCall
    /\ returned.how \in {"live", "simulated"}

(* C26: Every started scrapeTrainSchedule request eventually completes,    *)
(* provided every browser operation it awaits eventually returns or times  *)
(* out: it ends with a cached hit, a live record or the simulated          *)
(* fallback, and no request waits forever or loops.                        *)
C26_EventuallyCompletes ==
    /\ Pending ~> Completed
    /\ []<>(inflight = EmptyBag)
    /\ [](returned # NULL => returned.how \in {"cache", "live", "simulated"})

C26_Witness ==
    /\ returned # NULL
    /\ returned.how = "live"
    /\ inflight = EmptyBag
    /\ calls = MaxCalls

-----------------------------------------------------------------------------
(* the entries of one kind in a log *)
Entries(log, op) == { i \in 1..Len(log) : log[i].op = op }

Clicks(log) == { i \in Entries(log, "click") : log[i].ok }

(* the selectors probed, in the order of the log, are 1, 2, ... *)
ProbedInOrder(log) ==
    LET probes == SelectSeq(log, LAMBDA e : e.op = "probe")
    IN  \A k \in 1..Len(probes) : probes[k].target = k

(* the loop over dropdownSelectors has ended *)
ProbingOver(log) ==
    \/ Clicks(log) # {}
    \/ \E i \in Entries(log, "probe") : log[i].target = DropdownSelectors

C28_Log(log, over) ==
    /\ ProbedInOrder(log)
    /\ Cardinality(Clicks(log)) <= 1
    \* nothing is probed or clicked after a click
    /\ \A i \in Clicks(log) :
          /\ \A j \in Entries(log, "probe") \cup Entries(log, "click") : j <= i
          /\ log[i - 1] = Op("probe", log[i].target, TRUE)
    \* Enter only behind the loop, and only when nothing was clicked
    /\ Entries(log, "enter") # {} => ProbingOver(log) /\ Clicks(log) = {}
    /\ Cardinality(Entries(log, "enter")) <= 1
    \* behind the loop with nothing clicked, Enter is pressed
    /\ over /\ Clicks(log) = {} => Entries(log, "enter") # {}

(* C28: In _performStationSearch the suggestion selectors are probed in    *)
(* their listed order and probing stops at the first matching suggestion:  *)
(* at most one suggestion is clicked per search, a probe that throws is    *)
(* treated as not found and probing continues with the next selector, and  *)
(* the Enter key is pressed if and only if no suggestion was clicked.      *)
C28_State ==
    /\ \A r \in InFlight :
          r.impl = "playwright" =>
              /\ C28_Log(r.log, r.pc \in {"resultWait", "waitForTrainData"})
              /\ r.suggestionClicked <=> Clicks(r.log) # {}
              /\ r.pc = "probe" =>
                    /\ Clicks(r.log) = {}
                    /\ Cardinality(Entries(r.log, "probe")) = r.selector - 1
    /\ returned # NULL /\ returned.impl = "playwright" =>
          C28_Log(returned.log, ProbingOver(returned.log))

C28_Step ==
    /\ C28_State
    /\ C28_State'
    \* a probe that throws, like one that finds nothing, is followed by the
    \* next selector, or after the last one by Enter
    /\ \A r \in InFlight :
          ProbeThrows(r) \/ ProbeClickThrows(r) \/ ProbeNoMatch(r) =>
              \E n \in InFlight' :
                  /\ ~n.suggestionClicked
                  /\ IF r.selector < DropdownSelectors
                     THEN n.pc = "probe" /\ n.selector = r.selector + 1
                     ELSE n.pc = "enter"

C28_ProbingOrder == [][C28_Step]_vars

(* a search that clicked a suggestion of the third selector after the      *)
(* first probe threw and the second click failed                           *)
C28_Witness ==
    /\ returned # NULL
    /\ returned.impl = "playwright"
    /\ \E i \in Clicks(returned.log) : returned.log[i].target = 3
    /\ \E i \in Entries(returned.log, "probe") :
          returned.log[i].target = 1 /\ ~returned.log[i].ok
    /\ \E i \in Entries(returned.log, "click") :
          returned.log[i].target = 2 /\ ~returned.log[i].ok

-----------------------------------------------------------------------------
(* the search was committed, by a clicked suggestion or by Enter *)
Commits(log) == Clicks(log) \cup { i \in Entries(log, "enter") : log[i].ok }

(* the train data was seen on the page after the search was committed *)
ObservedAfterCommit(log) ==
    \E i \in Commits(log), j \in Entries(log, "observe") : i < j /\ log[j].ok

(* C29: The station search returns true if and only if the                 *)
(* train-data-visible signal was observed after the search was committed   *)
(* (by suggestion click or by Enter); in every other case, including no    *)
(* search input found and any thrown error, it returns false.              *)
C29_TrueIffObserved ==
    returned # NULL => (returned.result <=> ObservedAfterCommit(returned.log))

-----------------------------------------------------------------------------
TravelTimes == { MinutesPerStation * n : n \in 2..11 }

(* C31: estimatedTravelTime is 3 minutes times a station count derived     *)
(* from the origin only: with _hashString in 32-bit wrap-around arithmetic *)
(* the station count (|hash(origin)| mod 10) + 2 lies in 2..11 for every   *)
(* origin, the one whose hash is -2^31 included, so estimatedTravelTime is *)
(* always one of 6, 9, ..., 33.                                            *)
C31_TravelTimeRange ==
    returned # NULL =>
        /\ returned.stationCount \in 2..11
        /\ returned.stationCount = WordMod10(returned.hash) + 2
        /\ returned.estimatedTravelTime = MinutesPerStation * returned.stationCount
        /\ returned.estimatedTravelTime \in TravelTimes
        /\ returned.estimate = returned.estimatedTravelTime
        /\ \A destination \in Destinations :
              _simulateTrainData(returned.origin, destination, "LRT-1").estimatedTravelTime
                  = returned.estimatedTravelTime

(* the origin whose hash is -2^31: |hash| is 2^31, station count 10 *)
C31_Witness ==
    /\ returned # NULL
    /\ returned.origin = MinHashName
    /\ returned.hash = <<Half \div 2, 0>>
    /\ returned.estimatedTravelTime = 30

-----------------------------------------------------------------------------
(* the step is the completion of the call r, and the cache differs from    *)
(* the one before in the entry of r's key only, which holds the record     *)
(* returned, stamped now                                                   *)
WritesOwnKey(r) ==
    LET key == _getCacheKey(r.call.origin, r.call.destination)
    IN  /\ r.pc = "respond"
        /\ inflight' = Finish(r)
        /\ returned' # NULL
        /\ returned'.call = r.call
        /\ returned'.how \in {"live", "simulated"}
        /\ DOMAIN cache' = DOMAIN cache \cup {key}
        /\ cache'[key].data = returned'.data
        /\ cache'[key].timestamp = NowMs
        /\ \A k \in DOMAIN cache \ {key} : cache'[k] = cache[k]

(* C32: The cache is written exactly when a request misses: a request      *)
(* answered from the cache leaves the cache unchanged (same record, same   *)
(* timestamp, so a hit does not extend the TTL), and a request that misses *)
(* performs exactly one cache write, for its own key, at its completion.   *)
C32_Step ==
    \* a hit writes nothing
    /\ returned = NULL /\ returned' # NULL /\ returned'.how = "cache" =>
          /\ cache' = cache
          /\ inflight' = inflight
    \* a miss writes nothing when it starts or while it is suspended
    /\ BagCardinality(inflight') >= BagCardinality(inflight) /\ ~CleanupStep =>
          cache' = cache
    \* and writes its own key when it completes
    /\ BagCardinality(inflight') < BagCardinality(inflight) =>
          \E r \in InFlight : WritesOwnKey(r)

C32_WriteOnMiss == [][C32_Step]_vars

(* a hit on an entry written at an earlier time: the timestamp is the old  *)
(* one                                                                     *)
C32_Witness ==
    /\ returned # NULL
    /\ returned.how = "cache"
    /\ LET key == _getCacheKey(returned.call.origin, returned.call.destination)
       IN  /\ key \in DOMAIN cache
           /\ cache[key].timestamp < NowMs
           /\ cache[key].data = returned.data

-----------------------------------------------------------------------------
(* the route of a request: its names as a case-insensitive pair *)
Route(origin, destination) == <<toLowerCase(origin), toLowerCase(destination)>>

(* C33: The cache key is injective on routes: two (origin, destination)    *)
(* pairs that differ as case-insensitive pairs never map to the same cache *)
(* key, for all station-name strings the scraper accepts (including names  *)
(* containing the separator character), so a request is never answered     *)
(* with a record cached for a different route.                             *)
C33_KeyInjective ==
    \* a key in the cache is the key of one route only
    /\ \A k \in DOMAIN cache :
          \A origin \in KeyOrigins, destination \in KeyDestinations :
              _getCacheKey(origin, destination) = k =>
                  Route(origin, destination)
                      = Route(cache[k].data.origin, cache[k].data.destination)
    \* and what a caller gets is a record of the route asked for
    /\ returned # NULL =>
          Route(returned.data.origin, returned.data.destination)
              = Route(returned.call.origin, returned.call.destination)

-----------------------------------------------------------------------------
(* C34: Under any interleaving of cleanup() with in-flight                 *)
(* scrapeTrainSchedule calls (including a call suspended inside the        *)
(* browser launch), once cleanup() and all calls that were in flight have  *)
(* completed and no new call was started, no launched browser remains open *)
(* and the browser reference is null.                                      *)
C34_NothingLeftOpen ==
    cleanupPc = "done" /\ inflight = EmptyBag =>
        /\ openBrowsers = {}
        /\ browser = 0

-----------------------------------------------------------------------------
(* C35: cleanup() of the Playwright scraper empties the cache in addition  *)
(* to closing the browser: after cleanup() resolves, the first             *)
(* scrapeTrainSchedule call for any key is a cache miss, even for a key    *)
(* cached less than cacheDuration seconds earlier.                         *)
C35_MissAfterCleanup ==
    returned # NULL /\ calls = MaxCalls => returned.how # "cache"

-----------------------------------------------------------------------------
(* a name of the station table *)
Canonical(station) == \E line \in Lines : OnLine(station, line)

(* a call the claim allows: two different stations of the table with a     *)
(* route between them, asked for on the line of that route                 *)
RouteCall(call) ==
    /\ Canonical(call.origin)
    /\ Canonical(call.destination)
    /\ Lower(call.origin) # Lower(call.destination)
    /\ getRouteInfo(call.origin, call.destination) # none
    /\ call.line = getRouteInfo(call.origin, call.destination)

Awaited == { r \in InFlight : r.pc = "scrapeTrainSchedule" }

IsCompleted(sessions, userId) ==
    /\ userId \in DOMAIN sessions
    /\ sessions[userId].state = ConversationState.COMPLETED

(* C36: The conversation layer calls scrapeTrainSchedule only with an      *)
(* origin and a destination that are both canonical names from the station *)
(* table, that differ from each other case-insensitively, and for which    *)
(* getRouteInfo returned a route; a session enters COMPLETED only after    *)
(* such a call returned a record.                                          *)
C36_Step ==
    /\ \A r \in Awaited : RouteCall(r.call)
    /\ \A r \in Awaited' : RouteCall(r.call)
    /\ \A userId \in Users :
          ~IsCompleted(userSessions, userId) /\ IsCompleted(userSessions', userId) =>
              \E r \in Awaited :
                  /\ r.userId = userId
                  /\ RouteCall(r.call)
                  /\ inflight' = Finish(r)
                  /\ returned' = Reply(userId, "schedule")

C36_OnlyValidRoutes == [][C36_Step]_vars

(* a schedule delivered for a route with a transfer *)
C36_Witness ==
    /\ returned # NULL
    /\ returned.reply = "schedule"
    /\ IsCompleted(userSessions, returned.userId)
    /\ userSessions[returned.userId].origin = "Recto"

-----------------------------------------------------------------------------
DestinationPhase ==
    { ConversationState.WAITING_FOR_DESTINATION,
      ConversationState.WAITING_FOR_DESTINATION_LINE,
      ConversationState.WAITING_FOR_DESTINATION_STATION }

(* C37: In every reachable state, a session that is in a destination-phase *)
(* state (WAITING_FOR_DESTINATION, WAITING_FOR_DESTINATION_LINE or         *)
(* WAITING_FOR_DESTINATION_STATION) has a validated origin station stored  *)
(* in its data, under every sequence of messages including restarts,       *)
(* invalid inputs and session expiry.                                      *)
C37_OriginKept ==
    \A userId \in DOMAIN userSessions :
        userSessions[userId].state \in DestinationPhase =>
            /\ userSessions[userId].origin # none
            /\ Canonical(userSessions[userId].origin)

(* a session choosing the destination from the stations of a line, while   *)
(* the other user's session is gone or was never made                      *)
C37_Witness ==
    /\ "u1" \in DOMAIN userSessions
    /\ userSessions["u1"].state = ConversationState.WAITING_FOR_DESTINATION_STATION
    /\ userSessions["u1"].origin = "Cubao"
    /\ "u2" \notin DOMAIN userSessions

(* C38: a session is deleted by the sweep exactly when, at a session       *)
(* access made for any user, its last activity lies more than              *)
(* sessionTimeout in the past; a user whose session was deleted (or who    *)
(* has none) has the next message handled from INITIAL with empty data;    *)
(* getStats() sweeps by the same rule, and nothing else touches the        *)
(* sessions.                                                               *)
C38_IsAccess ==
    /\ returned = NULL
    /\ \/ inflight' # inflight
       \/ returned' # NULL /\ "from" \in DOMAIN returned'
C38_IsStats == returned = NULL /\ returned' # NULL /\ "op" \in DOMAIN returned'
C38_Accessor ==
    IF returned' # NULL THEN returned'
    ELSE CHOOSE r \in InFlight' : r \notin InFlight
C38_Swept(others) ==
    \A u \in others :
        /\ u \notin DOMAIN userSessions' <=>
               NowMs - userSessions[u].lastActivity > sessionTimeout
        /\ u \in DOMAIN userSessions' => userSessions'[u] = userSessions[u]
C38_Step ==
    IF C38_IsAccess
    THEN /\ C38_Swept(DOMAIN userSessions \ {C38_Accessor.userId})
         /\ LET u == C38_Accessor.userId IN
            IF /\ u \in DOMAIN userSessions
               /\ NowMs - userSessions[u].lastActivity <= sessionTimeout
            THEN C38_Accessor.from = SessionOf(userSessions[u])
            ELSE C38_Accessor.from = NewSession
         /\ DOMAIN userSessions' \subseteq
                DOMAIN userSessions \cup {C38_Accessor.userId}
    ELSE IF C38_IsStats
    THEN /\ C38_Swept(DOMAIN userSessions)
         /\ DOMAIN userSessions' \subseteq DOMAIN userSessions
    ELSE userSessions' = userSessions
C38_ExpiryExact == [][C38_Step]_vars
C38_Witness ==
    /\ returned # NULL
    /\ "swept" \in DOMAIN returned
    /\ returned.swept = Users
    /\ returned.from = NewSession
    /\ DOMAIN userSessions = {returned.userId}

(* C39: getStats(), and GET /stats with it, returns the statistics with    *)
(* scraperCacheInfo as getCacheInfo() of the handler's scraper gives it,   *)
(* and raises no error.                                                    *)
C39_StatsReturned ==
    returned # NULL /\ "op" \in DOMAIN returned =>
        IF returned.op = "getStats"
        THEN ~returned.threw /\ returned.value.scraperCacheInfo = getCacheInfo
        ELSE returned.status = 200 /\ returned.body.scraperCacheInfo = getCacheInfo

(* C40: for every line value passed for a route, a single line or a        *)
(* transfer label, the button _selectTrainLine picks is that of the line   *)
(* of the origin station.                                                  *)
C40_OriginLineButton ==
    returned # NULL /\ "buttonText" \in DOMAIN returned =>
        returned.buttonText = findStationLine(returned.origin)

====
